---- MODULE Spec2Model ----
(***************************************************************************)
(* Model of the sequential workflow engine of legal-workflow-orchestrator: *)
(* WorkflowEngine (src/workflows/workflow_engine.py), the step types       *)
(* (src/workflows/workflow_steps.py) and the memory / trace data model     *)
(* (src/utils/workflow_models.py).                                         *)
(*                                                                         *)
(* One run() call is a sequence of atomic actions split at the points      *)
(* where the engine hands control to an external capability (a task        *)
(* executor, the approval channel).  Everything the engine does between    *)
(* two such points is part of one action.                                  *)
(*                                                                         *)
(* Abstractions: real numbers are integers (confidence in hundredths,      *)
(* duration in ms); wall-clock timestamps are "set" or None; memory values *)
(* are flat string-to-string mappings.                                     *)
(***************************************************************************)
EXTENDS Integers, Sequences, FiniteSets, TLC

VARIABLES
    workflows,       \* WorkflowEngine._workflows : name -> WorkflowDefinition
    pc,              \* position of the run() call
    workflow_name,   \* run(): argument workflow_name
    initial_input,   \* run(): argument initial_input
    interactive,     \* run(): argument interactive
    memory,          \* run(): WorkflowMemory._store of this run
    trace,           \* run(): the WorkflowTrace of this run
    result,          \* the WorkflowResult run() returned (None before)
    i,               \* _execute_workflow: position of the for-loop in workflow.steps
    attempt,         \* _execute_agent_step: loop variable attempt
    input_snapshot,  \* _execute_agent_step: local input_snapshot
    last_result,     \* _execute_agent_step: local last_result
    summary,         \* _handle_human_gate: local summary (the text printed)
    log,             \* history: calls the engine made to conditions, executors,
                     \* summarizers and the approval channel, in order
    parked,          \* host: the locals of the other run() call in progress
    run_id,          \* host: which of the two run() calls the variables above belong to
    heap,            \* objects of a WorkflowMemory under test: address -> dict or list
    store_ref,       \* WorkflowMemory._store: address of the live dict
    snapshot_ref,    \* address of the dict the last snapshot() returned (0: none yet)
    call,            \* the last get / get_nested call: its arguments
    answer,          \* what that call returned
    ops,             \* number of calls made on the WorkflowMemory under test
    live_view,       \* history: the content the set/update calls gave the store
    snapshot_view,   \* history: the content of the snapshot when taken, with the
                     \* caller's own changes to it
    agent_pc,        \* position in the sequence classify, condition, review, gate
    llm_raw,         \* history: the JSON objects the LLM returned to the agents
    agent_result,    \* the StepResults BaseAgent.execute returned
    agent_memory,    \* the WorkflowMemory._store the agents' outputs are written to
    conditions       \* what the conditions of the definitions returned on it

\* the locals of one run() call
RunVars == <<pc, workflow_name, initial_input, interactive, memory, trace, result,
             i, attempt, input_snapshot, last_result, summary, log>>

HostVars == <<parked, run_id>>

\* a WorkflowMemory object exercised on its own, and the history kept about it
StoreVars == <<heap, store_ref, snapshot_ref, call, answer, ops, live_view, snapshot_view>>

\* the agents and the conditions of definitions.py exercised on their own
AgentVars == <<agent_pc, llm_raw, agent_result, agent_memory, conditions>>

vars == <<workflows, RunVars, HostVars, StoreVars, AgentVars>>

-----------------------------------------------------------------------------
(* Bounds of the model *)

\* longest definition registered
MaxSteps == 2
\* largest max_retries a step declares
MaxRetries == 2

-----------------------------------------------------------------------------
(* Values *)

None == "None"
EmptyDict == [k \in {} |-> None]

\* Python's None where the other values are objects: a value of the memory store, a
\* trace, result or StepResult not created yet
PyNone == [None |-> None]

\* dict.__setitem__ / dict.update on one key
DictSet(d, k, v) == [x \in (DOMAIN d) \cup {k} |-> IF x = k THEN v ELSE d[x]]

\* dict.update(other)
DictUpdate(d, other) ==
    [x \in (DOMAIN d) \cup (DOMAIN other) |-> IF x \in DOMAIN other THEN other[x] ELSE d[x]]

\* StepStatus / WorkflowStatus values
COMPLETED == "completed"
FAILED == "failed"
SKIPPED == "skipped"
RUNNING == "running"
CANCELLED == "cancelled"
WAITING_HUMAN == "waiting_human"

WorkflowStatus == {RUNNING, COMPLETED, FAILED, CANCELLED, WAITING_HUMAN}

-----------------------------------------------------------------------------
(* WorkflowMemory *)

MemorySet(store, key, value) == DictSet(store, key, value)

MemoryGet(store, key, default) == IF key \in DOMAIN store THEN store[key] ELSE default

MemoryUpdate(store, data) == DictUpdate(store, data)

MemoryContains(store, key) == key \in DOMAIN store

\* copy.deepcopy of the store: values of the model are immutable, the copy is the value
MemorySnapshot(store) == store

-----------------------------------------------------------------------------
(* WorkflowMemory as an object: the store is a dict whose values may be dicts *)
(* and lists in turn, held by reference.  A cell is what a slot of a dict or  *)
(* list holds: an atom (0 is None) or the address of an object.               *)

\* calls that change the WorkflowMemory under test or a snapshot of it
MaxOps == 3

Atom(n) == [tag |-> "atom", v |-> n]
Ref(a) == [tag |-> "ref", v |-> a]
NoneCell == Atom(0)

DictObject(slots) == [kind |-> "dict", slots |-> slots]
ListObject(slots) == [kind |-> "list", slots |-> slots]

\* WorkflowMemory(): _store is a new empty dict
NewStoreHeap == [a \in {1} |-> DictObject(EmptyDict)]

MaxAddr(h) == CHOOSE a \in DOMAIN h : \A b \in DOMAIN h : b <= a

\* values a caller passes to set()
\*   "atom"    1
\*   "flat"    {"area": 2, "confidence": 3}   (tests/test_orchestrator.py:59)
\*   "nested"  {"list": [1]}                  (tests/test_orchestrator.py:67)
ValueShapes == {"atom", "flat", "nested"}

\* the objects of a value, allocated above address n, and the cell that refers to it
ShapeObjects(shape, n) ==
    CASE shape = "atom" -> [a \in {} |-> DictObject(EmptyDict)]
      [] shape = "flat" ->
            [a \in {n + 1} |-> DictObject([area |-> Atom(2), confidence |-> Atom(3)])]
      [] shape = "nested" ->
            [a \in {n + 1, n + 2} |->
                IF a = n + 1 THEN DictObject([list |-> Ref(n + 2)])
                ELSE ListObject([k \in {"0"} |-> Atom(1)])]

ShapeCell(shape, n) == IF shape = "atom" THEN Atom(1) ELSE Ref(n + 1)

\* addresses the objects at the addresses of S refer to, and S
Referred(h, S) ==
    S \cup UNION { {h[a].slots[k].v : k \in {x \in DOMAIN h[a].slots : h[a].slots[x].tag = "ref"}} :
                     a \in S }

\* the objects reachable from the addresses of S (values nest at most three deep)
Reachable(h, S) == Referred(h, Referred(h, Referred(h, S)))

\* objects no reference leads to are reclaimed
Collect(h, roots) == [a \in Reachable(h, roots \ {0}) |-> h[a]]

\* self._store[key] = value
HeapSet(h, a, key, cell) == [h EXCEPT ![a].slots = DictSet(@, key, cell)]

\* the object, with every reference moved by n
Relocated(obj, n) ==
    [obj EXCEPT !.slots = [k \in DOMAIN obj.slots |->
        IF obj.slots[k].tag = "ref" THEN Ref(obj.slots[k].v + n) ELSE obj.slots[k]]]

\* bug: dict.copy(), as to_dict() does: a new top-level dict over the same values
ShallowCopy(h, root) ==
    [a \in DOMAIN h \cup {root + MaxAddr(h)} |-> IF a \in DOMAIN h THEN h[a] ELSE h[root]]

\* copy.deepcopy(self._store): every object reachable from root is copied, the copy of
\* the object at address a is at address a + MaxAddr(h)
DeepCopy(h, root) ==
    LET n == MaxAddr(h) IN
    [a \in DOMAIN h \cup {b + n : b \in Reachable(h, {root})} |->
        IF a \in DOMAIN h THEN h[a] ELSE Relocated(h[a - n], n)]

\* isinstance(current, dict)
IsDict(h, cell) == cell.tag = "ref" /\ h[cell.v].kind = "dict"

\* WorkflowMemory.get
HeapGet(h, root, key, default) ==
    IF key \in DOMAIN h[root].slots THEN h[root].slots[key] ELSE default

\* a call that ended with an exception
RaisedCell == Atom(-1)

RECURSIVE WalkKeys(_, _, _, _)
\* bug: "if key not in current" without the isinstance test: TypeError on a value that
\* is no container
WalkKeys_NoTypeCheck(h, current, keys, default) ==
    IF keys = <<>> THEN current
    ELSE IF current.tag = "atom" THEN RaisedCell
    ELSE IF ~IsDict(h, current) \/ Head(keys) \notin DOMAIN h[current.v].slots THEN default
    ELSE WalkKeys(h, h[current.v].slots[Head(keys)], Tail(keys), default)

\* get_nested: the for-loop over keys
WalkKeys(h, current, keys, default) ==
    IF keys = <<>> THEN current
    ELSE IF ~IsDict(h, current) \/ Head(keys) \notin DOMAIN h[current.v].slots THEN default
    ELSE WalkKeys(h, h[current.v].slots[Head(keys)], Tail(keys), default)

\* WorkflowMemory.get_nested
HeapGetNested(h, root, keys, default) == WalkKeys(h, Ref(root), keys, default)

\* the address of the dict or list a caller reaches from root through path (0: none)
RECURSIVE Resolve(_, _, _)
Resolve(h, a, path) ==
    IF path = <<>> THEN a
    ELSE IF Head(path) \notin DOMAIN h[a].slots \/ h[a].slots[Head(path)].tag # "ref" THEN 0
    ELSE Resolve(h, h[a].slots[Head(path)].v, Tail(path))

-----------------------------------------------------------------------------
(* Content of a value, without addresses *)

AtomView(n) == [kind |-> "atom", atom |-> n, slots |-> EmptyDict]
DictView(slots) == [kind |-> "dict", atom |-> 0, slots |-> slots]
ListView(slots) == [kind |-> "list", atom |-> 0, slots |-> slots]

\* the content a cell stands for
RECURSIVE View(_, _)
View(h, cell) ==
    IF cell.tag = "atom" THEN AtomView(cell.v)
    ELSE [kind |-> h[cell.v].kind, atom |-> 0,
          slots |-> [k \in DOMAIN h[cell.v].slots |-> View(h, h[cell.v].slots[k])]]

ShapeView(shape) ==
    CASE shape = "atom" -> AtomView(1)
      [] shape = "flat" -> DictView([area |-> AtomView(2), confidence |-> AtomView(3)])
      [] shape = "nested" -> DictView([list |-> ListView([k \in {"0"} |-> AtomView(1)])])

\* the content with slot key of the container at path replaced by val
RECURSIVE ViewSet(_, _, _, _)
ViewSet(view, path, key, val) ==
    IF path = <<>> THEN [view EXCEPT !.slots = DictSet(@, key, val)]
    ELSE [view EXCEPT !.slots[Head(path)] = ViewSet(@, Tail(path), key, val)]

\* every key of the path is present, each in a mapping
RECURSIVE PathPresent(_, _)
PathPresent(view, keys) ==
    IF keys = <<>> THEN TRUE
    ELSE IF view.kind # "dict" \/ Head(keys) \notin DOMAIN view.slots THEN FALSE
    ELSE PathPresent(view.slots[Head(keys)], Tail(keys))

\* the content reached by following the keys
RECURSIVE ViewAt(_, _)
ViewAt(view, keys) ==
    IF keys = <<>> THEN view ELSE ViewAt(view.slots[Head(keys)], Tail(keys))

\* the path leads through mappings and lists to a dict or list
RECURSIVE ViewHasContainer(_, _)
ViewHasContainer(view, path) ==
    IF view.kind = "atom" THEN FALSE
    ELSE IF path = <<>> THEN TRUE
    ELSE IF Head(path) \notin DOMAIN view.slots THEN FALSE
    ELSE ViewHasContainer(view.slots[Head(path)], Tail(path))

-----------------------------------------------------------------------------
(* Conditions of the shipped definitions.  Numbers between 0 and 1 are kept   *)
(* in hundredths: 50 is 0.5.                                                  *)

\* every key of the path is present, each in a mapping (None is no mapping)
RECURSIVE NestedPresent(_, _)
NestedPresent(current, keys) ==
    IF keys = <<>> THEN TRUE
    ELSE IF current = PyNone THEN FALSE
    ELSE IF Head(keys) \notin DOMAIN current THEN FALSE
    ELSE NestedPresent(current[Head(keys)], Tail(keys))

RECURSIVE NestedValue(_, _)
NestedValue(current, keys) ==
    IF keys = <<>> THEN current ELSE NestedValue(current[Head(keys)], Tail(keys))

\* m.get_nested(*keys) or other: get_nested gives its default None when a key is
\* missing, and Python's `or` takes `other` for None and for a falsy value alike
\* (falsy: the falsy value of the type kept at the path, 0 or "")
GetNestedOr(store, keys, falsy, other) ==
    IF ~NestedPresent(store, keys) THEN other
    ELSE IF NestedValue(store, keys) = falsy THEN other
    ELSE NestedValue(store, keys)

\* bug: a missing confidence counts as full confidence (or 1.0)
ConfidentEnough_MissingIsConfident(m) ==
    GetNestedOr(m, <<"classification", "confidence">>, 0, 100) >= 50

\* lambda m: (m.get_nested("classification", "confidence") or 0) >= 0.5
ConfidentEnough(m) == GetNestedOr(m, <<"classification", "confidence">>, 0, 0) >= 50

\* needs_human_gate of peticao_inicial_workflow
needs_human_gate(m) ==
    LET urgencia == GetNestedOr(m, <<"classification", "urgencia">>, "", "")
        complexidade == GetNestedOr(m, <<"classification", "complexidade">>, "", "")
        recomendacao == GetNestedOr(m, <<"revisao", "recomendacao">>, "", "aprovar")
        score == GetNestedOr(m, <<"revisao", "score_qualidade">>, 0, 100)
    IN \/ urgencia = "urgente"
       \/ complexidade = "complexo"
       \/ recomendacao \in {"revisar", "rejeitar"}
       \/ score < 80

-----------------------------------------------------------------------------
(* Steps and definitions *)

\* keys a step may declare as memory_key
MemoryKeys == {"classification", "result"}

\* conditions a step may carry: None, or a callable over the memory
\*   "false"     lambda m: False                 (tests/test_orchestrator.py:421)
\*   "raises"    lambda m: 1 / 0                 (tests/test_orchestrator.py:286)
\*   "has_key"   lambda m: "classification" in m (definitions.py:277, on "minuta")
Conditions == {None, "false", "raises", "has_key"}

\* the condition of the step after classify in triagem_rapida and recurso_ordinario
\*   "confident" lambda m: (m.get_nested("classification", "confidence") or 0) >= 0.5
DeclaredConditions == {None, "confident"}

ConditionKey == "classification"

\* whether calling the condition raises
ConditionRaises(condition, store) == condition = "raises"

\* bool(condition(memory)) when the call returns
ConditionValue(condition, store) ==
    CASE condition = "false" -> FALSE
      [] condition = "has_key" -> MemoryContains(store, ConditionKey)
      [] condition = "confident" -> ConfidentEnough(store)
      [] OTHER -> TRUE

StepId(p) == "step" \o ToString(p)

AgentStepShapes ==
    [step_type : {"agent"}, agent : {"MockAgent"}, memory_key : MemoryKeys,
     max_retries : 0..MaxRetries, required : BOOLEAN, condition : Conditions]

HumanGateStepShapes ==
    [step_type : {"human_gate"}, require_approval : BOOLEAN, condition : Conditions]

StepShapes == AgentStepShapes \cup HumanGateStepShapes

\* AgentStep(step_id=..., agent=..., memory_key=..., ...)
AgentStep(p, s) ==
    [step_type |-> "agent", step_id |-> StepId(p), agent |-> s.agent,
     memory_key |-> s.memory_key, max_retries |-> s.max_retries,
     required |-> s.required, condition |-> s.condition]

\* HumanGateStep(step_id=..., prompt_fn=..., require_approval=..., ...)
HumanGateStep(p, s) ==
    [step_type |-> "human_gate", step_id |-> StepId(p),
     require_approval |-> s.require_approval, condition |-> s.condition]

MakeStep(p, s) == IF s.step_type = "agent" THEN AgentStep(p, s) ELSE HumanGateStep(p, s)

WorkflowNames == {"wf"}
UnregisteredNames == {"nonexistent"}

\* WorkflowDefinition(name, steps): every definition of at most MaxSteps steps
WorkflowDefinitions ==
    UNION { { [name |-> nm, steps |-> [p \in 1..n |-> MakeStep(p, f[p])]] :
                f \in [1..n -> StepShapes], nm \in WorkflowNames } : n \in 0..MaxSteps }

\* bug: fail-closed, an erroring condition skips the step
ShouldRun_FailClosed(step, store) ==
    IF step.condition = None THEN TRUE
    ELSE IF ConditionRaises(step.condition, store) THEN FALSE
    ELSE ConditionValue(step.condition, store)

\* bug: the condition of a required task step is not consulted
ShouldRun_RequiredAlwaysRuns(step, store) ==
    IF step.step_type = "agent" /\ step.required THEN TRUE
    ELSE IF step.condition = None THEN TRUE
    ELSE IF ConditionRaises(step.condition, store) THEN TRUE
    ELSE ConditionValue(step.condition, store)

\* AgentStep.should_run / HumanGateStep.should_run
ShouldRun(step, store) ==
    IF step.condition = None THEN TRUE
    ELSE IF ConditionRaises(step.condition, store) THEN TRUE
    ELSE ConditionValue(step.condition, store)

IsHumanGate(step) == step.step_type = "human_gate"

-----------------------------------------------------------------------------
(* Trace model *)

\* WorkflowTrace(workflow_name=...): the dataclass defaults
NewTrace(name) ==
    [workflow_name |-> name, status |-> RUNNING, completed_at |-> None,
     steps |-> <<>>, human_gates_encountered |-> 0, human_gates_approved |-> 0,
     total_llm_calls |-> 0, total_tokens_used |-> 0, total_duration_ms |-> 0,
     error |-> None]

\* bug: the record is inserted at the front of the list
AddStep_Prepend(tr, step_trace) ==
    [tr EXCEPT !.steps = <<step_trace>> \o @,
               !.total_llm_calls = @ + step_trace.llm_calls,
               !.total_tokens_used = @ + step_trace.tokens_used,
               !.total_duration_ms = @ + step_trace.duration_ms]

\* bug: the tokens of the step are not added to the run's total
AddStep_NoTokens(tr, step_trace) ==
    [tr EXCEPT !.steps = Append(@, step_trace),
               !.total_llm_calls = @ + step_trace.llm_calls,
               !.total_duration_ms = @ + step_trace.duration_ms]

\* WorkflowTrace.add_step
AddStep(tr, step_trace) ==
    [tr EXCEPT !.steps = Append(@, step_trace),
               !.total_llm_calls = @ + step_trace.llm_calls,
               !.total_tokens_used = @ + step_trace.tokens_used,
               !.total_duration_ms = @ + step_trace.duration_ms]

\* WorkflowTrace.complete
Complete(tr, status, error) ==
    [tr EXCEPT !.status = status, !.completed_at = "set", !.error = error]

\* bug: the memory handed to _record_skipped is stored as the snapshot
SkippedStepTrace_Snapshot(step_id) ==
    [step_id |-> step_id, agent_name |-> "", status |-> SKIPPED,
     input_snapshot |-> MemorySnapshot(memory), output |-> EmptyDict, confidence |-> 100,
     duration_ms |-> 0, llm_calls |-> 0, tokens_used |-> 0, error |-> None,
     retry_count |-> 0, notes |-> "Condition evaluated to False"]

\* the StepTrace _record_skipped builds
SkippedStepTrace(step_id) ==
    [step_id |-> step_id, agent_name |-> "", status |-> SKIPPED,
     input_snapshot |-> EmptyDict, output |-> EmptyDict, confidence |-> 100,
     duration_ms |-> 0, llm_calls |-> 0, tokens_used |-> 0, error |-> None,
     retry_count |-> 0, notes |-> "Condition evaluated to False"]

\* bug: no copy is taken, the record holds the live store
AgentStepTrace_LiveSnapshot(step, snapshot, last) ==
    [step_id |-> step.step_id, agent_name |-> step.agent, status |-> last.status,
     input_snapshot |-> memory', output |-> last.output,
     confidence |-> last.confidence, duration_ms |-> last.duration_ms,
     llm_calls |-> last.llm_calls, tokens_used |-> last.tokens_used,
     error |-> last.error, retry_count |-> last.retry_count, notes |-> ""]

\* the StepTrace _execute_agent_step builds from the last attempt's StepResult
AgentStepTrace(step, snapshot, last) ==
    [step_id |-> step.step_id, agent_name |-> step.agent, status |-> last.status,
     input_snapshot |-> snapshot, output |-> last.output,
     confidence |-> last.confidence, duration_ms |-> last.duration_ms,
     llm_calls |-> last.llm_calls, tokens_used |-> last.tokens_used,
     error |-> last.error, retry_count |-> last.retry_count, notes |-> ""]

\* WorkflowEngine._build_final_output
KeyOutputs == {"classification", "pesquisa", "analise", "minuta", "revisao"}

\* bug: every key of the store is delivered
BuildFinalOutput_AllKeys(store) == store

\* val = memory.get(key); if val is not None: output[key] = val
BuildFinalOutput(store) ==
    [k \in {x \in KeyOutputs : MemoryGet(store, x, PyNone) # PyNone} |->
        MemoryGet(store, k, PyNone)]

\* the WorkflowResult run() returns
WorkflowResult(name, status, store, tr) ==
    [workflow_name |-> name, status |-> status, memory |-> store, trace |-> tr,
     final_output |-> BuildFinalOutput(store), error |-> None]

-----------------------------------------------------------------------------
(* Agents: BaseAgent.execute and the _parse_output of ClassifierAgent and     *)
(* ReviewerAgent.  A raw output is the JSON object the LLM returned, a dict   *)
(* that has any of the keys or not.                                           *)

\* raw.get(key, default)
RawGet(raw, key, default) == IF key \in DOMAIN raw THEN raw[key] ELSE default

\* max(0.0, min(1.0, x))
Clamp01(x) == IF x < 0 THEN 0 ELSE IF x > 100 THEN 100 ELSE x

VALID_AREAS ==
    {"trabalhista", "civil", "penal", "tributario", "administrativo", "consumidor",
     "previdenciario", "familiar", "outros"}
VALID_URGENCIAS == {"urgente", "media", "baixa"}
VALID_COMPLEXIDADES == {"simples", "medio", "complexo"}
VALID_PROCEDIMENTOS ==
    {"rito_sumario", "rito_sumarissimo", "rito_ordinario", "especial", "habeas_corpus",
     "mandado_seguranca", "a_definir"}

\* value if it is one of the valid ones, fallback otherwise
Validated(value, valid, fallback) == IF value \in valid THEN value ELSE fallback

\* ClassifierAgent._parse_output: (output, confidence); the confidence is returned
\* beside the output, the output dict has no "confidence" key
ClassifierAgent_parse_output(raw) ==
    LET confidence == Clamp01(RawGet(raw, "confidence", 70))
        area == RawGet(raw, "area", "outros")
    IN [output |->
            [area |-> Validated(area, VALID_AREAS, "outros"),
             subarea |-> RawGet(raw, "subarea", ""),
             urgencia |-> Validated(RawGet(raw, "urgencia", "media"), VALID_URGENCIAS, "media"),
             procedimento |-> Validated(RawGet(raw, "procedimento", "a_definir"),
                                        VALID_PROCEDIMENTOS, "a_definir"),
             complexidade |-> Validated(RawGet(raw, "complexidade", "medio"),
                                        VALID_COMPLEXIDADES, "medio"),
             partes |-> RawGet(raw, "partes", EmptyDict),
             fatos_principais |-> RawGet(raw, "fatos_principais", <<>>),
             prazo_dias |-> RawGet(raw, "prazo_dias", None),
             observacoes |-> RawGet(raw, "observacoes", "")],
        confidence |-> IF area \in VALID_AREAS THEN confidence ELSE (confidence * 7) \div 10]

\* ReviewerAgent._parse_output, "Normalize issues": the dicts that have a "descricao"
\* are kept, with a valid severity or "baixa"
RECURSIVE NormalizeIssues(_)
NormalizeIssues(raw_issues) ==
    IF raw_issues = <<>> THEN <<>>
    ELSE LET issue == Head(raw_issues) IN
         IF "descricao" \in DOMAIN issue
         THEN << [tipo |-> RawGet(issue, "tipo", "geral"),
                  descricao |-> issue.descricao,
                  severidade |-> Validated(RawGet(issue, "severidade", "baixa"),
                                           {"alta", "media", "baixa"}, "baixa")] >>
              \o NormalizeIssues(Tail(raw_issues))
         ELSE NormalizeIssues(Tail(raw_issues))

\* ReviewerAgent._parse_output: (output, confidence)
ReviewerAgent_parse_output(raw) ==
    LET confidence == Clamp01(RawGet(raw, "confidence", 80))
        score == Clamp01(RawGet(raw, "score_qualidade", 50))
        aprovado == RawGet(raw, "aprovado", FALSE)
        recomendacao == Validated(RawGet(raw, "recomendacao", "revisar"),
                                  {"aprovar", "revisar", "rejeitar"}, "revisar")
        issues == NormalizeIssues(RawGet(raw, "issues", <<>>))
        has_alta == \E k \in 1..Len(issues) : issues[k].severidade = "alta"
    IN [output |->
            [aprovado |-> IF has_alta /\ aprovado THEN FALSE ELSE aprovado,
             score_qualidade |-> score,
             issues |-> issues,
             sugestoes |-> RawGet(raw, "sugestoes", <<>>),
             secoes_ok |-> RawGet(raw, "secoes_ok", <<>>),
             secoes_problematicas |-> RawGet(raw, "secoes_problematicas", <<>>),
             recomendacao |-> IF has_alta /\ aprovado
                              THEN (IF score < 60 THEN "rejeitar" ELSE "revisar")
                              ELSE recomendacao],
        confidence |-> confidence]

\* BaseAgent._fail: a FAILED StepResult with the error, after one LLM call
AgentFail(error) ==
    [status |-> FAILED, output |-> EmptyDict, error |-> error, confidence |-> 100,
     duration_ms |-> 5, llm_calls |-> 1, tokens_used |-> 50, retry_count |-> 0]

\* BaseAgent.execute, given what complete_json returned and what the agent's
\* _parse_output makes of it: an empty raw output fails, otherwise the StepResult is
\* COMPLETED with the parsed output and the parsed confidence
AgentExecute(raw_output, parsed) ==
    IF raw_output = EmptyDict THEN AgentFail("LLM returned empty response")
    ELSE [status |-> COMPLETED, output |-> parsed.output, error |-> None,
          confidence |-> parsed.confidence, duration_ms |-> 10, llm_calls |-> 1,
          tokens_used |-> 100, retry_count |-> 0]

-----------------------------------------------------------------------------
(* External capabilities: what they may answer *)

\* StepResult values a task executor may return (status COMPLETED or FAILED, as
\* BaseAgent.execute and the executors of the tests do)
\*   make_mock_agent (tests/test_orchestrator.py:300), an executor reporting a raw
\*   confidence above 1, the FailAgent of the tests (defaults of StepResult),
\*   BaseAgent._fail after one LLM call
ExecutorResults ==
    { [status |-> COMPLETED, output |-> [area |-> "trabalhista"], error |-> None,
       confidence |-> 90, duration_ms |-> 10, llm_calls |-> 1, tokens_used |-> 100,
       retry_count |-> 0],
      [status |-> COMPLETED, output |-> [ok |-> "true"], error |-> None,
       confidence |-> 150, duration_ms |-> 20, llm_calls |-> 2, tokens_used |-> 200,
       retry_count |-> 0],
      [status |-> FAILED, output |-> EmptyDict, error |-> "Simulated failure",
       confidence |-> 100, duration_ms |-> 0, llm_calls |-> 0, tokens_used |-> 0,
       retry_count |-> 0],
      [status |-> FAILED, output |-> EmptyDict, error |-> "LLM returned empty response",
       confidence |-> 100, duration_ms |-> 5, llm_calls |-> 1, tokens_used |-> 50,
       retry_count |-> 0] }

\* what an executor may write to the live memory during its call (it holds the handle)
ExecutorWrites == { EmptyDict, [result |-> [draft |-> "partial"]] }

\* initial_input of run()
InitialInputs == { EmptyDict, [caso |-> [texto |-> "teste"], minuta |-> PyNone] }

\* str(e) of the exceptions the top-level handler of run() catches
ExecutorError == "executor crashed"
NoAttemptError == "'NoneType' object has no attribute 'status'"
InputError == "EOF when reading a line"

RequiredStepError(step, last) ==
    "Required step '" \o step.step_id \o "' failed: " \o last.error

-----------------------------------------------------------------------------
(* History *)

\* one call of the engine: what was called ("should_run", "summarize", "request",
\* "execute", or "record" for building the step's StepTrace), for the step at which
\* position, how the call ended, the memory keys the callee wrote itself, and the
\* value that went in or came out (None where the history keeps none)
Event(ev, p, val, keys) == [ev |-> ev, pos |-> p, val |-> val, keys |-> keys, data |-> PyNone]

\* step.should_run(memory): data is the store the condition was given
ShouldRunEvent(p, val, store) == [Event("should_run", p, val, {}) EXCEPT !.data = store]

\* step.agent.execute(memory) returned r: data is the StepResult as returned
ExecuteEvent(p, r, writes) == [Event("execute", p, r.status, DOMAIN writes) EXCEPT !.data = r]

-----------------------------------------------------------------------------
(* The engine *)

\* the locals of a run() call that has not been made yet
IdleRun ==
    [pc |-> "idle", workflow_name |-> None, initial_input |-> EmptyDict,
     interactive |-> FALSE, memory |-> EmptyDict, trace |-> PyNone, result |-> PyNone,
     i |-> 0, attempt |-> 0, input_snapshot |-> EmptyDict, last_result |-> PyNone,
     summary |-> None, log |-> <<>>]

InitRun ==
    /\ pc = "idle"
    /\ workflow_name = None
    /\ initial_input = EmptyDict
    /\ interactive = FALSE
    /\ memory = EmptyDict
    /\ trace = PyNone
    /\ result = PyNone
    /\ i = 0
    /\ attempt = 0
    /\ input_snapshot = EmptyDict
    /\ last_result = PyNone
    /\ summary = None
    /\ log = <<>>

InitHost ==
    /\ parked = IdleRun
    /\ run_id = 1

NoCall == [op |-> "none", keys |-> <<>>, default |-> NoneCell]

\* m = WorkflowMemory()
InitStore ==
    /\ heap = NewStoreHeap
    /\ store_ref = 1
    /\ snapshot_ref = 0
    /\ call = NoCall
    /\ answer = NoneCell
    /\ ops = 0
    /\ live_view = DictView(EmptyDict)
    /\ snapshot_view = DictView(EmptyDict)

\* no agent was called yet, the store is empty
InitAgents ==
    /\ agent_pc = "start"
    /\ llm_raw = [classifier |-> EmptyDict, reviewer |-> EmptyDict]
    /\ agent_result = [classifier |-> PyNone, reviewer |-> PyNone]
    /\ agent_memory = EmptyDict
    /\ conditions = [confident |-> FALSE, needs_human_gate |-> FALSE]

Init ==
    /\ workflows = EmptyDict
    /\ InitRun
    /\ InitHost
    /\ InitStore
    /\ InitAgents

Steps == workflows[workflow_name].steps

CurrentStep == Steps[i]

AtStep == pc = "loop" /\ i <= Len(Steps)

AgentLocals == <<attempt, input_snapshot, last_result>>

\* the locals of _execute_agent_step are gone when it returns
AgentLocalsDropped ==
    /\ attempt' = 0
    /\ input_snapshot' = EmptyDict
    /\ last_result' = PyNone

\* WorkflowEngine.register (the model registers before the run, once per name)
Register(workflow) ==
    /\ pc = "idle"
    /\ workflow.name \notin DOMAIN workflows
    /\ workflows' = DictSet(workflows, workflow.name, workflow)
    /\ UNCHANGED <<pc, workflow_name, interactive, memory, trace, result, i,
                   AgentLocals, summary, log>>
    /\ UNCHANGED <<initial_input, HostVars, StoreVars, AgentVars>>

\* bug: a missing name is given an empty definition and run
RunUnregistered_RunsEmpty(name) ==
    /\ pc = "idle"
    /\ name \notin DOMAIN workflows
    /\ workflows' = DictSet(workflows, name, [name |-> name, steps |-> <<>>])
    /\ workflow_name' = name
    /\ memory' = EmptyDict
    /\ trace' = NewTrace(name)
    /\ i' = 1
    /\ pc' = "loop"
    /\ UNCHANGED <<interactive, result, AgentLocals, summary, log>>
    /\ UNCHANGED <<initial_input, HostVars, StoreVars, AgentVars>>

\* run(): workflow_name not in self._workflows -> raise ValueError
RunUnregistered(name) ==
    /\ pc = "idle"
    /\ name \notin DOMAIN workflows
    /\ pc' = "raised"
    /\ workflow_name' = name
    /\ UNCHANGED <<workflows, interactive, memory, trace, result, i,
                   AgentLocals, summary, log>>
    /\ UNCHANGED <<initial_input, HostVars, StoreVars, AgentVars>>

\* bug: the engine keeps one store for all its runs
RunStart_SharedStore(name, input, inter) ==
    /\ pc = "idle"
    /\ name \in DOMAIN workflows
    /\ workflow_name' = name
    /\ initial_input' = input
    /\ interactive' = inter
    /\ memory' = MemoryUpdate(parked.memory, input)
    /\ trace' = NewTrace(name)
    /\ i' = 1
    /\ pc' = "loop"
    /\ UNCHANGED <<workflows, result, AgentLocals, summary, log>>
    /\ UNCHANGED <<HostVars, StoreVars, AgentVars>>

\* run(): memory = WorkflowMemory(); memory.update(initial_input); trace = WorkflowTrace(...)
RunStart(name, input, inter) ==
    /\ pc = "idle"
    /\ name \in DOMAIN workflows
    /\ workflow_name' = name
    /\ initial_input' = input
    /\ interactive' = inter
    /\ memory' = MemoryUpdate(EmptyDict, input)
    /\ trace' = NewTrace(name)
    /\ i' = 1
    /\ pc' = "loop"
    /\ UNCHANGED <<workflows, result, AgentLocals, summary, log>>
    /\ UNCHANGED <<HostVars, StoreVars, AgentVars>>

\* bug: a run that does not complete hands back the store as it was at the start
Return_RollsBack(status, tr, store) ==
    /\ result' = WorkflowResult(workflow_name, status,
                                IF status = COMPLETED THEN store ELSE initial_input, tr)
    /\ pc' = "returned"

\* run(): return WorkflowResult(...) with the status _execute_workflow returned
Return(status, tr, store) ==
    /\ result' = WorkflowResult(workflow_name, status, store, tr)
    /\ pc' = "returned"

\* bug: the handler drops the exception's message
Crash_NoMessage(message, store) ==
    /\ trace' = Complete(trace, FAILED, None)
    /\ Return(FAILED, trace', store)

\* bug: the handler returns FAILED without finalizing the trace
Crash_NoComplete(message, store) ==
    /\ trace' = trace
    /\ Return(FAILED, trace', store)

\* run(): except Exception as e -> trace.complete(FAILED, error=str(e)); status = FAILED
Crash(message, store) ==
    /\ trace' = Complete(trace, FAILED, message)
    /\ Return(FAILED, trace', store)

\* bug: a skipped step is passed over without a record
StepSkipped_NoRecord ==
    /\ AtStep
    /\ ~ShouldRun(CurrentStep, memory)
    /\ i' = i + 1
    /\ log' = Append(log, ShouldRunEvent(i, "false", memory))
    /\ UNCHANGED <<workflows, pc, workflow_name, interactive, memory, trace, result,
                   AgentLocals, summary>>
    /\ UNCHANGED <<initial_input, HostVars, StoreVars, AgentVars>>

\* _execute_workflow: not step.should_run(memory) -> _record_skipped; continue
StepSkipped ==
    /\ AtStep
    /\ ~ShouldRun(CurrentStep, memory)
    /\ trace' = AddStep(trace, SkippedStepTrace(CurrentStep.step_id))
    /\ i' = i + 1
    /\ log' = Append(log, ShouldRunEvent(i, "false", memory))
    /\ UNCHANGED <<workflows, pc, workflow_name, interactive, memory, result, AgentLocals, summary>>
    /\ UNCHANGED <<initial_input, HostVars, StoreVars, AgentVars>>

\* bug: the loop's end returns COMPLETED without finalizing the trace
Finish_NoComplete ==
    /\ pc = "loop"
    /\ i > Len(Steps)
    /\ trace' = trace
    /\ Return(COMPLETED, trace', memory)
    /\ UNCHANGED <<workflows, workflow_name, interactive, memory, i, AgentLocals, summary, log>>
    /\ UNCHANGED <<initial_input, HostVars, StoreVars, AgentVars>>

\* _execute_workflow: the loop ended -> trace.complete(COMPLETED); return COMPLETED
Finish ==
    /\ pc = "loop"
    /\ i > Len(Steps)
    /\ trace' = Complete(trace, COMPLETED, None)
    /\ Return(COMPLETED, trace', memory)
    /\ UNCHANGED <<workflows, workflow_name, interactive, memory, i, AgentLocals, summary, log>>
    /\ UNCHANGED <<initial_input, HostVars, StoreVars, AgentVars>>

\* bug: only the step's flag is consulted, a non-interactive run still asks
AutoApproved_OnlyFlag(step, inter) == ~step.require_approval

\* _handle_human_gate: not interactive or not step.require_approval
AutoApproved(step, inter) == ~inter \/ ~step.require_approval

\* _execute_workflow + _handle_human_gate: a gate that is approved without asking
GateAutoApprove ==
    /\ AtStep
    /\ ShouldRun(CurrentStep, memory)
    /\ IsHumanGate(CurrentStep)
    /\ AutoApproved(CurrentStep, interactive)
    /\ trace' = [trace EXCEPT !.human_gates_encountered = @ + 1,
                              !.human_gates_approved = @ + 1]
    /\ i' = i + 1
    /\ log' = Append(log, ShouldRunEvent(i, "true", memory))
    /\ UNCHANGED <<workflows, pc, workflow_name, interactive, memory, result,
                   AgentLocals, summary>>
    /\ UNCHANGED <<initial_input, HostVars, StoreVars, AgentVars>>

SummaryText == "summary"
SummaryPlaceholder == "[Error building summary]"

\* bug: an exception of prompt_fn is not caught and reaches the top-level handler
GatePresent_SummaryFails(prompt_raises) ==
    /\ AtStep
    /\ ShouldRun(CurrentStep, memory)
    /\ IsHumanGate(CurrentStep)
    /\ ~AutoApproved(CurrentStep, interactive)
    /\ log' = log \o << ShouldRunEvent(i, "true", memory),
                        Event("summarize", i, IF prompt_raises THEN "raised" ELSE "returned", {}) >>
    /\ IF prompt_raises
       THEN /\ trace' = Complete([trace EXCEPT !.human_gates_encountered = @ + 1],
                                 FAILED, "summary failed")
            /\ Return(FAILED, trace', memory)
            /\ UNCHANGED summary
       ELSE /\ trace' = [trace EXCEPT !.human_gates_encountered = @ + 1]
            /\ summary' = SummaryText
            /\ pc' = "gate"
            /\ UNCHANGED result
    /\ UNCHANGED <<workflows, workflow_name, interactive, memory, i, AgentLocals>>
    /\ UNCHANGED <<initial_input, HostVars, StoreVars, AgentVars>>

\* bug: the gate is counted as approved when it is presented, before any answer
GatePresent_ApprovesFirst(prompt_raises) ==
    /\ AtStep
    /\ ShouldRun(CurrentStep, memory)
    /\ IsHumanGate(CurrentStep)
    /\ ~AutoApproved(CurrentStep, interactive)
    /\ trace' = [trace EXCEPT !.human_gates_encountered = @ + 1,
                              !.human_gates_approved = @ + 1]
    /\ summary' = IF prompt_raises THEN SummaryPlaceholder ELSE SummaryText
    /\ pc' = "gate"
    /\ log' = log \o << ShouldRunEvent(i, "true", memory),
                        Event("summarize", i, IF prompt_raises THEN "raised" ELSE "returned", {}) >>
    /\ UNCHANGED <<workflows, workflow_name, interactive, memory, result, i, AgentLocals>>
    /\ UNCHANGED <<initial_input, HostVars, StoreVars, AgentVars>>

\* _handle_human_gate, interactive: build the summary (placeholder when prompt_fn
\* raises), print it and block in input()
GatePresent(prompt_raises) ==
    /\ AtStep
    /\ ShouldRun(CurrentStep, memory)
    /\ IsHumanGate(CurrentStep)
    /\ ~AutoApproved(CurrentStep, interactive)
    /\ trace' = [trace EXCEPT !.human_gates_encountered = @ + 1]
    /\ summary' = IF prompt_raises THEN SummaryPlaceholder ELSE SummaryText
    /\ pc' = "gate"
    /\ log' = log \o << ShouldRunEvent(i, "true", memory),
                        Event("summarize", i, IF prompt_raises THEN "raised" ELSE "returned", {}) >>
    /\ UNCHANGED <<workflows, workflow_name, interactive, memory, result, i, AgentLocals>>
    /\ UNCHANGED <<initial_input, HostVars, StoreVars, AgentVars>>

\* bug: an approval given by the channel is not counted
GateApprove_Uncounted ==
    /\ pc = "gate"
    /\ i' = i + 1
    /\ pc' = "loop"
    /\ summary' = None
    /\ log' = Append(log, Event("request", i, "approved", {}))
    /\ UNCHANGED <<workflows, workflow_name, interactive, memory, trace, result, AgentLocals>>
    /\ UNCHANGED <<initial_input, HostVars, StoreVars, AgentVars>>

\* _handle_human_gate: response in ("sim", "s", "yes", "y")
GateApprove ==
    /\ pc = "gate"
    /\ trace' = [trace EXCEPT !.human_gates_approved = @ + 1]
    /\ i' = i + 1
    /\ pc' = "loop"
    /\ summary' = None
    /\ log' = Append(log, Event("request", i, "approved", {}))
    /\ UNCHANGED <<workflows, workflow_name, interactive, memory, result, AgentLocals>>
    /\ UNCHANGED <<initial_input, HostVars, StoreVars, AgentVars>>

\* bug: the engine ignores the gate's answer and goes on
GateReject_Continues ==
    /\ pc = "gate"
    /\ i' = i + 1
    /\ pc' = "loop"
    /\ summary' = None
    /\ log' = Append(log, Event("request", i, "rejected", {}))
    /\ UNCHANGED <<workflows, workflow_name, interactive, memory, trace, result, AgentLocals>>
    /\ UNCHANGED <<initial_input, HostVars, StoreVars, AgentVars>>

\* bug: a rejection is counted as an approval before the run is cancelled
GateReject_CountsApproval ==
    /\ pc = "gate"
    /\ trace' = Complete([trace EXCEPT !.human_gates_approved = @ + 1], CANCELLED, None)
    /\ Return(CANCELLED, trace', memory)
    /\ log' = Append(log, Event("request", i, "rejected", {}))
    /\ UNCHANGED <<workflows, workflow_name, interactive, memory, i, AgentLocals, summary>>
    /\ UNCHANGED <<initial_input, HostVars, StoreVars, AgentVars>>

\* bug: the trace is finalized CANCELLED but the loop goes on to the next step
GateReject_GoesOn ==
    /\ pc = "gate"
    /\ trace' = Complete(trace, CANCELLED, None)
    /\ i' = i + 1
    /\ pc' = "loop"
    /\ summary' = None
    /\ log' = Append(log, Event("request", i, "rejected", {}))
    /\ UNCHANGED <<workflows, workflow_name, interactive, memory, result, AgentLocals>>
    /\ UNCHANGED <<initial_input, HostVars, StoreVars, AgentVars>>

\* _handle_human_gate: response in ("nao", "n", "no") -> False;
\* _execute_workflow: trace.complete(CANCELLED); return CANCELLED
GateReject ==
    /\ pc = "gate"
    /\ trace' = Complete(trace, CANCELLED, None)
    /\ Return(CANCELLED, trace', memory)
    /\ log' = Append(log, Event("request", i, "rejected", {}))
    /\ UNCHANGED <<workflows, workflow_name, interactive, memory, i, AgentLocals, summary>>
    /\ UNCHANGED <<initial_input, HostVars, StoreVars, AgentVars>>

\* _handle_human_gate: any other response -> print the hint and ask again
GateInvalidResponse ==
    /\ pc = "gate"
    /\ UNCHANGED vars

\* _handle_human_gate: input() raises (EOFError on a closed stdin) -> top-level handler
GateInputRaises ==
    /\ pc = "gate"
    /\ Crash(InputError, memory)
    /\ log' = Append(log, Event("request", i, "raised", {}))
    /\ UNCHANGED <<workflows, workflow_name, interactive, memory, i, AgentLocals, summary>>
    /\ UNCHANGED <<initial_input, HostVars, StoreVars, AgentVars>>

\* bug: one attempt too many (attempt <= max_retries)
AttemptsRemain_OffByOne(step, a) == a < step.max_retries

\* _execute_agent_step: range(step.max_retries) has an attempt left after `a`
AttemptsRemain(step, a) == a + 1 < step.max_retries

\* bug: the required test is inverted
Escalates_Inverted(step, last) == last.status = FAILED /\ ~step.required

\* bug: the required flag is not consulted
Escalates_Never(step, last) == FALSE

\* _execute_workflow: result.failed and step.required
Escalates(step, last) == last.status = FAILED /\ step.required

\* _execute_agent_step: input_snapshot = memory.snapshot(); enter the retry loop
AgentStepBegin ==
    /\ AtStep
    /\ ShouldRun(CurrentStep, memory)
    /\ ~IsHumanGate(CurrentStep)
    /\ CurrentStep.max_retries > 0
    /\ input_snapshot' = MemorySnapshot(memory)
    /\ last_result' = PyNone
    /\ attempt' = 0
    /\ pc' = "execute"
    /\ log' = Append(log, ShouldRunEvent(i, "true", memory))
    /\ UNCHANGED <<workflows, workflow_name, interactive, memory, trace, result, i, summary>>
    /\ UNCHANGED <<initial_input, HostVars, StoreVars, AgentVars>>

\* bug: a step with no attempt left is passed over
AgentStepNoAttempt_PassesOver ==
    /\ AtStep
    /\ ShouldRun(CurrentStep, memory)
    /\ ~IsHumanGate(CurrentStep)
    /\ CurrentStep.max_retries <= 0
    /\ i' = i + 1
    /\ log' = Append(log, ShouldRunEvent(i, "true", memory))
    /\ UNCHANGED <<workflows, pc, workflow_name, interactive, memory, trace, result,
                   AgentLocals, summary>>
    /\ UNCHANGED <<initial_input, HostVars, StoreVars, AgentVars>>

\* _execute_agent_step: range(step.max_retries) is empty, last_result stays None and
\* last_result.status raises AttributeError -> top-level handler
AgentStepNoAttempt ==
    /\ AtStep
    /\ ShouldRun(CurrentStep, memory)
    /\ ~IsHumanGate(CurrentStep)
    /\ CurrentStep.max_retries <= 0
    /\ Crash(NoAttemptError, memory)
    /\ log' = log \o << ShouldRunEvent(i, "true", memory), Event("record", i, "raised", {}) >>
    /\ UNCHANGED <<workflows, workflow_name, interactive, memory, i, AgentLocals, summary>>
    /\ UNCHANGED <<initial_input, HostVars, StoreVars, AgentVars>>

\* bug: the attempt index is not stored in the result
WithRetryCount_Unset(r, a) == r

\* result.retry_count = attempt
WithRetryCount(r, a) == [r EXCEPT !.retry_count = a]

\* bug: the output is stored with setdefault, a value already at the key is kept
ExecuteCompleted_KeepsPrior(r, writes) ==
    /\ pc = "execute"
    /\ r.status = COMPLETED
    /\ LET last == WithRetryCount(r, attempt)
           store == MemoryUpdate(memory, writes) IN
         /\ memory' = IF MemoryContains(store, CurrentStep.memory_key) THEN store
                       ELSE MemorySet(store, CurrentStep.memory_key, r.output)
         /\ trace' = AddStep(trace, AgentStepTrace(CurrentStep, input_snapshot, last))
    /\ i' = i + 1
    /\ pc' = "loop"
    /\ AgentLocalsDropped
    /\ log' = Append(log, ExecuteEvent(i, r, writes))
    /\ UNCHANGED <<workflows, workflow_name, interactive, result, summary>>
    /\ UNCHANGED <<initial_input, HostVars, StoreVars, AgentVars>>

\* one attempt that returns COMPLETED: memory.set, break, trace.add_step, next step
ExecuteCompleted(r, writes) ==
    /\ pc = "execute"
    /\ r.status = COMPLETED
    /\ LET last == WithRetryCount(r, attempt) IN
         /\ memory' = MemorySet(MemoryUpdate(memory, writes), CurrentStep.memory_key, r.output)
         /\ trace' = AddStep(trace, AgentStepTrace(CurrentStep, input_snapshot, last))
    /\ i' = i + 1
    /\ pc' = "loop"
    /\ AgentLocalsDropped
    /\ log' = Append(log, ExecuteEvent(i, r, writes))
    /\ UNCHANGED <<workflows, workflow_name, interactive, result, summary>>
    /\ UNCHANGED <<initial_input, HostVars, StoreVars, AgentVars>>

\* bug: the cost of an attempt that will be retried is added to the run's totals
ExecuteFailedRetry_CountsCost(r, writes) ==
    /\ pc = "execute"
    /\ r.status = FAILED
    /\ AttemptsRemain(CurrentStep, attempt)
    /\ memory' = MemoryUpdate(memory, writes)
    /\ last_result' = WithRetryCount(r, attempt)
    /\ attempt' = attempt + 1
    /\ trace' = [trace EXCEPT !.total_llm_calls = @ + r.llm_calls,
                              !.total_tokens_used = @ + r.tokens_used,
                              !.total_duration_ms = @ + r.duration_ms]
    /\ log' = Append(log, ExecuteEvent(i, r, writes))
    /\ UNCHANGED <<workflows, pc, workflow_name, interactive, result, i,
                   input_snapshot, summary>>
    /\ UNCHANGED <<initial_input, HostVars, StoreVars, AgentVars>>

\* one attempt that returns FAILED with attempts left: next attempt
ExecuteFailedRetry(r, writes) ==
    /\ pc = "execute"
    /\ r.status = FAILED
    /\ AttemptsRemain(CurrentStep, attempt)
    /\ memory' = MemoryUpdate(memory, writes)
    /\ last_result' = WithRetryCount(r, attempt)
    /\ attempt' = attempt + 1
    /\ log' = Append(log, ExecuteEvent(i, r, writes))
    /\ UNCHANGED <<workflows, pc, workflow_name, interactive, trace, result, i,
                   input_snapshot, summary>>
    /\ UNCHANGED <<initial_input, HostVars, StoreVars, AgentVars>>

\* the last attempt returns FAILED and the step is required:
\* trace.add_step; trace.complete(FAILED, error); return FAILED
ExecuteFailedRequired(r, writes) ==
    /\ pc = "execute"
    /\ r.status = FAILED
    /\ ~AttemptsRemain(CurrentStep, attempt)
    /\ LET last == WithRetryCount(r, attempt) IN
         /\ Escalates(CurrentStep, last)
         /\ memory' = MemoryUpdate(memory, writes)
         /\ trace' = Complete(AddStep(trace, AgentStepTrace(CurrentStep, input_snapshot, last)),
                              FAILED, RequiredStepError(CurrentStep, last))
         /\ Return(FAILED, trace', memory')
    /\ AgentLocalsDropped
    /\ log' = Append(log, ExecuteEvent(i, r, writes))
    /\ UNCHANGED <<workflows, workflow_name, interactive, i, summary>>
    /\ UNCHANGED <<initial_input, HostVars, StoreVars, AgentVars>>

\* bug: the output of the last attempt is written whatever its status
ExecuteFailedOptional_Writes(r, writes) ==
    /\ pc = "execute"
    /\ r.status = FAILED
    /\ ~AttemptsRemain(CurrentStep, attempt)
    /\ LET last == WithRetryCount(r, attempt) IN
         /\ ~Escalates(CurrentStep, last)
         /\ memory' = MemorySet(MemoryUpdate(memory, writes), CurrentStep.memory_key, r.output)
         /\ trace' = AddStep(trace, AgentStepTrace(CurrentStep, input_snapshot, last))
    /\ i' = i + 1
    /\ pc' = "loop"
    /\ AgentLocalsDropped
    /\ log' = Append(log, ExecuteEvent(i, r, writes))
    /\ UNCHANGED <<workflows, workflow_name, interactive, result, summary>>
    /\ UNCHANGED <<initial_input, HostVars, StoreVars, AgentVars>>

\* the last attempt returns FAILED and the step is optional: trace.add_step, next step
ExecuteFailedOptional(r, writes) ==
    /\ pc = "execute"
    /\ r.status = FAILED
    /\ ~AttemptsRemain(CurrentStep, attempt)
    /\ LET last == WithRetryCount(r, attempt) IN
         /\ ~Escalates(CurrentStep, last)
         /\ memory' = MemoryUpdate(memory, writes)
         /\ trace' = AddStep(trace, AgentStepTrace(CurrentStep, input_snapshot, last))
    /\ i' = i + 1
    /\ pc' = "loop"
    /\ AgentLocalsDropped
    /\ log' = Append(log, ExecuteEvent(i, r, writes))
    /\ UNCHANGED <<workflows, workflow_name, interactive, result, summary>>
    /\ UNCHANGED <<initial_input, HostVars, StoreVars, AgentVars>>

\* step.agent.execute raises instead of returning -> top-level handler
ExecuteRaises(writes) ==
    /\ pc = "execute"
    /\ memory' = MemoryUpdate(memory, writes)
    /\ Crash(ExecutorError, memory')
    /\ AgentLocalsDropped
    /\ log' = Append(log, Event("execute", i, "raised", DOMAIN writes))
    /\ UNCHANGED <<workflows, workflow_name, interactive, i, summary>>
    /\ UNCHANGED <<initial_input, HostVars, StoreVars, AgentVars>>

Next ==
    \/ pc = "idle" /\ workflows = EmptyDict /\ \E w \in WorkflowDefinitions : Register(w)
    \/ \E name \in WorkflowNames \cup UnregisteredNames : RunUnregistered(name)
    \/ \E name \in WorkflowNames, input \in InitialInputs, inter \in BOOLEAN :
           RunStart(name, input, inter)
    \/ StepSkipped
    \/ GateAutoApprove
    \/ \E prompt_raises \in BOOLEAN : GatePresent(prompt_raises)
    \/ GateApprove
    \/ GateReject
    \/ GateInvalidResponse
    \/ GateInputRaises
    \/ AgentStepBegin
    \/ AgentStepNoAttempt
    \/ \E r \in ExecutorResults, writes \in ExecutorWrites : ExecuteCompleted(r, writes)
    \/ \E r \in ExecutorResults, writes \in ExecutorWrites : ExecuteFailedRetry(r, writes)
    \/ \E r \in ExecutorResults, writes \in ExecutorWrites : ExecuteFailedRequired(r, writes)
    \/ \E r \in ExecutorResults, writes \in ExecutorWrites : ExecuteFailedOptional(r, writes)
    \/ \E writes \in ExecutorWrites : ExecuteRaises(writes)
    \/ Finish

Spec == Init /\ [][Next]_vars

-----------------------------------------------------------------------------
(* Scheduling: run() is one thread of control, so the engine goes on whenever *)
(* it can; an executor call and the approval channel are outside it and are   *)
(* assumed to come back                                                       *)

\* the engine's own steps between two external calls
EngineStep ==
    \/ StepSkipped
    \/ GateAutoApprove
    \/ \E prompt_raises \in BOOLEAN : GatePresent(prompt_raises)
    \/ AgentStepBegin
    \/ AgentStepNoAttempt
    \/ Finish

\* what the executors of the host's agents return: make_mock_agent and FailAgent
HostResults == {r \in ExecutorResults : r.tokens_used \in {0, 100}}

\* step.executor(memory) comes back: with a StepResult or with an exception
ExecutorReturns ==
    \/ \E r \in HostResults, writes \in ExecutorWrites : ExecuteCompleted(r, writes)
    \/ \E r \in HostResults, writes \in ExecutorWrites : ExecuteFailedRetry(r, writes)
    \/ \E r \in HostResults, writes \in ExecutorWrites : ExecuteFailedRequired(r, writes)
    \/ \E r \in HostResults, writes \in ExecutorWrites : ExecuteFailedOptional(r, writes)
    \/ \E writes \in ExecutorWrites : ExecuteRaises(writes)

\* input() gives a decision, or fails, after any number of other answers
ChannelDecides == GateApprove \/ GateReject \/ GateInputRaises

Fairness == WF_vars(EngineStep) /\ WF_vars(ExecutorReturns) /\ WF_vars(ChannelDecides)

\* a run of any definition, its executors answering as those of the host
NextLive ==
    \/ pc = "idle" /\ workflows = EmptyDict /\ \E w \in WorkflowDefinitions : Register(w)
    \/ \E name \in WorkflowNames \cup UnregisteredNames : RunUnregistered(name)
    \/ \E name \in WorkflowNames, input \in InitialInputs, inter \in BOOLEAN :
           RunStart(name, input, inter)
    \/ EngineStep
    \/ ExecutorReturns
    \/ ChannelDecides
    \/ GateInvalidResponse

SpecLive == Init /\ [][NextLive]_vars /\ Fairness

-----------------------------------------------------------------------------
(* Two run() calls on one engine, interleaved by the host *)

\* the locals of the run() call the engine actions act on
CurrentRun ==
    [pc |-> pc, workflow_name |-> workflow_name, initial_input |-> initial_input,
     interactive |-> interactive, memory |-> memory, trace |-> trace, result |-> result,
     i |-> i, attempt |-> attempt, input_snapshot |-> input_snapshot,
     last_result |-> last_result, summary |-> summary, log |-> log]

\* the host moves on to its other run() call; each call keeps its own locals
Switch ==
    /\ parked' = CurrentRun
    /\ run_id' = 3 - run_id
    /\ pc' = parked.pc
    /\ workflow_name' = parked.workflow_name
    /\ initial_input' = parked.initial_input
    /\ interactive' = parked.interactive
    /\ memory' = parked.memory
    /\ trace' = parked.trace
    /\ result' = parked.result
    /\ i' = parked.i
    /\ attempt' = parked.attempt
    /\ input_snapshot' = parked.input_snapshot
    /\ last_result' = parked.last_result
    /\ summary' = parked.summary
    /\ log' = parked.log
    /\ UNCHANGED <<workflows, StoreVars, AgentVars>>

\* the definitions the host registered: a task step with a gate after it, and an
\* optional task step followed by one that runs only on the first one's output
HostDefinitions ==
    { [name |-> "wf",
       steps |-> << AgentStep(1, [agent |-> "MockAgent", memory_key |-> "classification",
                                  max_retries |-> 2, required |-> TRUE, condition |-> None]),
                    HumanGateStep(2, [require_approval |-> TRUE, condition |-> None]) >>],
      [name |-> "wf2",
       steps |-> << AgentStep(1, [agent |-> "MockAgent", memory_key |-> "classification",
                                  max_retries |-> 1, required |-> FALSE, condition |-> None]),
                    AgentStep(2, [agent |-> "MockAgent", memory_key |-> "result",
                                  max_retries |-> 0, required |-> TRUE,
                                  condition |-> "has_key"]) >>] }

\* engine = WorkflowEngine(); engine.register(...) for each definition of the host
InitRuns ==
    /\ workflows = [n \in {w.name : w \in HostDefinitions} |->
                        CHOOSE w \in HostDefinitions : w.name = n]
    /\ InitRun
    /\ InitHost
    /\ InitStore
    /\ InitAgents

NextRuns ==
    \/ Switch
    \/ \E name \in UnregisteredNames : RunUnregistered(name)
    \/ \E name \in DOMAIN workflows, input \in InitialInputs, inter \in BOOLEAN :
           RunStart(name, input, inter)
    \/ StepSkipped
    \/ GateAutoApprove
    \/ \E prompt_raises \in BOOLEAN : GatePresent(prompt_raises)
    \/ GateApprove
    \/ GateReject
    \/ GateInvalidResponse
    \/ GateInputRaises
    \/ AgentStepBegin
    \/ AgentStepNoAttempt
    \/ \E r \in HostResults, writes \in ExecutorWrites : ExecuteCompleted(r, writes)
    \/ \E r \in HostResults, writes \in ExecutorWrites : ExecuteFailedRetry(r, writes)
    \/ \E r \in HostResults, writes \in ExecutorWrites : ExecuteFailedRequired(r, writes)
    \/ \E r \in HostResults, writes \in ExecutorWrites : ExecuteFailedOptional(r, writes)
    \/ \E writes \in ExecutorWrites : ExecuteRaises(writes)
    \/ Finish

SpecRuns == InitRuns /\ [][NextRuns]_vars

-----------------------------------------------------------------------------
(* A WorkflowMemory exercised by a caller: set, update, get, get_nested,      *)
(* snapshot, and the caller's changes to the dict snapshot() gave it          *)

TopKeys == {"classification", "data"}
PathKeys == {"classification", "area", "list", "missing"}
MaxPath == 3
\* the key sequences of at most MaxPath keys
RECURSIVE PathsOf(_)
PathsOf(n) ==
    IF n = 0 THEN {<<>>}
    ELSE PathsOf(n - 1) \cup {Append(q, k) : q \in PathsOf(n - 1), k \in PathKeys}
Paths == PathsOf(MaxPath)

\* where a caller finds a dict or list in a snapshot: snap, snap[k], snap[k]["list"]
CopyPaths == {<<>>} \cup {<<k>> : k \in TopKeys} \cup {<<k, "list">> : k \in TopKeys}
Defaults == {NoneCell, Atom(5)}

\* m.update({...}) with plain values
UpdateData == { [classification |-> Atom(4), data |-> Atom(6)] }

\* the objects something still refers to
Live(h, root, snap, held) ==
    Collect(h, {root, snap} \cup (IF held.tag = "ref" THEN {held.v} ELSE {}))

\* m.set(key, value) with a newly built value
SetCall(key, shape) ==
    /\ ops < MaxOps
    /\ LET n == MaxAddr(heap)
           new == ShapeObjects(shape, n)
           h == [a \in DOMAIN heap \cup DOMAIN new |->
                    IF a \in DOMAIN heap THEN heap[a] ELSE new[a]]
       IN heap' = Live(HeapSet(h, store_ref, key, ShapeCell(shape, n)),
                       store_ref, snapshot_ref, NoneCell)
    /\ live_view' = ViewSet(live_view, <<>>, key, ShapeView(shape))
    /\ call' = NoCall
    /\ answer' = NoneCell
    /\ ops' = ops + 1
    /\ UNCHANGED <<store_ref, snapshot_ref, snapshot_view>>
    /\ UNCHANGED <<workflows, RunVars, HostVars, AgentVars>>

\* m.update(data)
UpdateCall(data) ==
    /\ ops < MaxOps
    /\ heap' = Live([heap EXCEPT ![store_ref].slots = DictUpdate(@, data)],
                    store_ref, snapshot_ref, NoneCell)
    /\ live_view' = [live_view EXCEPT !.slots =
                        DictUpdate(@, [k \in DOMAIN data |-> AtomView(data[k].v)])]
    /\ call' = NoCall
    /\ answer' = NoneCell
    /\ ops' = ops + 1
    /\ UNCHANGED <<store_ref, snapshot_ref, snapshot_view>>
    /\ UNCHANGED <<workflows, RunVars, HostVars, AgentVars>>

\* m.get(key, default); a read leaves the store as it is, so the reads are taken
\* one per content of the store
GetCall(key, default) ==
    /\ call.op = "none"
    /\ call' = [op |-> "get", keys |-> <<key>>, default |-> default]
    /\ answer' = HeapGet(heap, store_ref, key, default)
    /\ UNCHANGED <<heap, ops, store_ref, snapshot_ref, live_view, snapshot_view>>
    /\ UNCHANGED <<workflows, RunVars, HostVars, AgentVars>>

\* m.get_nested(*keys, default=default)
GetNestedCall(keys, default) ==
    /\ call.op = "none"
    /\ call' = [op |-> "get_nested", keys |-> keys, default |-> default]
    /\ answer' = HeapGetNested(heap, store_ref, keys, default)
    /\ UNCHANGED <<heap, ops, store_ref, snapshot_ref, live_view, snapshot_view>>
    /\ UNCHANGED <<workflows, RunVars, HostVars, AgentVars>>

\* bug: snapshot() returns a copy of the top-level dict only
SnapshotCall_Shallow ==
    /\ ops < MaxOps
    /\ snapshot_ref' = store_ref + MaxAddr(heap)
    /\ heap' = Live(ShallowCopy(heap, store_ref), store_ref, snapshot_ref', answer)
    /\ snapshot_view' = live_view
    /\ ops' = ops + 1
    /\ UNCHANGED <<store_ref, call, answer, live_view>>
    /\ UNCHANGED <<workflows, RunVars, HostVars, AgentVars>>

\* snap = m.snapshot()
SnapshotCall ==
    /\ ops < MaxOps
    /\ snapshot_ref' = store_ref + MaxAddr(heap)
    /\ heap' = Live(DeepCopy(heap, store_ref), store_ref, snapshot_ref', answer)
    /\ snapshot_view' = live_view
    /\ ops' = ops + 1
    /\ UNCHANGED <<store_ref, call, answer, live_view>>
    /\ UNCHANGED <<workflows, RunVars, HostVars, AgentVars>>

\* the caller changes the dict snapshot() returned, or a dict or list inside it:
\* snap[...][key] = 9, or snap[...].append(9) on a list
MutateCopy(path, key) ==
    /\ ops < MaxOps
    /\ snapshot_ref # 0
    /\ ViewHasContainer(snapshot_view, path)
    /\ LET target == Resolve(heap, snapshot_ref, path) IN
         /\ target # 0
         /\ (heap[target].kind = "list") <=> (key = "1")
         /\ heap' = Live(HeapSet(heap, target, key, Atom(9)), store_ref, snapshot_ref, answer)
    /\ snapshot_view' = ViewSet(snapshot_view, path, key, AtomView(9))
    /\ ops' = ops + 1
    /\ UNCHANGED <<store_ref, snapshot_ref, call, answer, live_view>>
    /\ UNCHANGED <<workflows, RunVars, HostVars, AgentVars>>

NextMemory ==
    \/ \E key \in TopKeys, shape \in ValueShapes : SetCall(key, shape)
    \/ \E data \in UpdateData : UpdateCall(data)
    \/ \E key \in TopKeys \cup {"missing"}, default \in Defaults : GetCall(key, default)
    \/ \E keys \in Paths, default \in Defaults : GetNestedCall(keys, default)
    \/ SnapshotCall
    \/ \E path \in CopyPaths, key \in {"classification", "area", "1"} : MutateCopy(path, key)

SpecMemory == Init /\ [][NextMemory]_vars

-----------------------------------------------------------------------------
(* Vocabulary of the properties *)

TerminalStatus == {COMPLETED, FAILED, CANCELLED}

\* a run exists: run() passed the registry check
Started == pc \notin {"idle", "raised"}
Running == pc \in {"loop", "gate", "execute"}
Returned == pc = "returned"

\* position in the definition of the step with this id
PosOf(step_id) == CHOOSE p \in 1..Len(Steps) : Steps[p].step_id = step_id

Records == trace.steps
LastEvent == log[Len(log)]

\* the trace holds no record, and the history no call, for a step after position p
NothingAfter(p) ==
    /\ \A k \in 1..Len(Records) : PosOf(Records[k].step_id) <= p
    /\ \A k \in 1..Len(log) : log[k].pos <= p
    /\ i = p

-----------------------------------------------------------------------------
(* C1: run() on a registered definition returns a Result whose status is     *)
(* COMPLETED, FAILED or CANCELLED, never RUNNING or WAITING_HUMAN; the trace  *)
(* is RUNNING until run() returns and leaves RUNNING in that one step.        *)
C1_TerminalStatusOnce ==
    /\ [](Returned => /\ result.status \in TerminalStatus
                      /\ trace.status = result.status)
    /\ [](Running => trace.status = RUNNING /\ result = PyNone)
    /\ [][Returned' /\ ~Returned => Running /\ trace'.status \in TerminalStatus]_vars

C1_Witness ==
    /\ Returned
    /\ result.status = FAILED
    /\ LastEvent.val = "raised"
    /\ Len(Records) = 1

(* C2: once a required task step has a FAILED record, the run is finalized    *)
(* FAILED at that step: the record is the last one, the loop has not moved    *)
(* past the step and no condition, executor or gate of a later step was       *)
(* called.                                                                    *)
C2_RequiredFailureStops ==
    Started =>
        \A k \in 1..Len(Records) :
            LET p == PosOf(Records[k].step_id) IN
            (Records[k].status = FAILED /\ Steps[p].required) =>
                /\ Returned
                /\ result.status = FAILED
                /\ trace.status = FAILED
                /\ k = Len(Records)
                /\ NothingAfter(p)

\* scenario S1: two required steps, the first fails on both of its two attempts
C2_Witness ==
    /\ Returned
    /\ Len(Steps) = 2
    /\ Steps[2].step_type = "agent" /\ Steps[2].required
    /\ Len(Records) = 1
    /\ Records[1].step_id = Steps[1].step_id
    /\ Records[1].status = FAILED
    /\ Records[1].retry_count = 1
    /\ Steps[1].required
    /\ result.status = FAILED

(* C3: once the approval channel rejected a gate, the run is finalized        *)
(* CANCELLED at that gate: the rejection is the last call the engine made and *)
(* the trace holds no record (executed or SKIPPED) for a later step.          *)
C3_RejectedGateStops ==
    Started =>
        \A k \in 1..Len(log) :
            (log[k].ev = "request" /\ log[k].val = "rejected") =>
                /\ Returned
                /\ result.status = CANCELLED
                /\ trace.status = CANCELLED
                /\ k = Len(log)
                /\ NothingAfter(log[k].pos)

C3_Witness ==
    /\ Returned
    /\ Len(Steps) = 2
    /\ IsHumanGate(Steps[1])
    /\ LastEvent.ev = "request" /\ LastEvent.val = "rejected" /\ LastEvent.pos = 1
    /\ result.status = CANCELLED
    /\ Len(Records) = 0

-----------------------------------------------------------------------------
\* the executor calls made for the step at position p, in order
ExecEvents(p) == SelectSeq(log, LAMBDA e : e.ev = "execute" /\ e.pos = p)

\* the step at position p is a task step whose should_run was true
TaskRan(p) ==
    /\ ~IsHumanGate(Steps[p])
    /\ \E k \in 1..Len(log) :
           log[k].ev = "should_run" /\ log[k].pos = p /\ log[k].val = "true"

\* the engine is done with the step at position p
Finished(p) == p < i \/ Returned

\* FAILED outcomes before the terminal attempt
FailedBeforeLast(ev) == Cardinality({k \in 1..(Len(ev) - 1) : ev[k].val = FAILED})

-----------------------------------------------------------------------------
\* str(e) of the exception each call raises
RaisedMessage(ev) ==
    CASE ev = "execute" -> ExecutorError
      [] ev = "request" -> InputError
      [] ev = "record" -> NoAttemptError

(* C5: an exception the step protocols do not handle (raised by an executor,  *)
(* by the approval channel, or while the step's record is built) ends the run *)
(* FAILED with the exception's message as the trace's error; a Result is      *)
(* returned and nothing of a later step is called or recorded.                *)
C5_UnhandledExceptionFails ==
    Started =>
        \A k \in 1..Len(log) :
            (log[k].val = "raised" /\ log[k].ev \in {"execute", "request", "record"}) =>
                /\ Returned
                /\ result.status = FAILED
                /\ trace.status = FAILED
                /\ trace.error = RaisedMessage(log[k].ev)
                /\ k = Len(log)
                /\ NothingAfter(log[k].pos)

C5_Witness ==
    /\ Returned
    /\ Len(Steps) = 2
    /\ LastEvent.ev = "execute" /\ LastEvent.val = "raised" /\ LastEvent.pos = 1
    /\ trace.error = ExecutorError
    /\ result.status = FAILED

-----------------------------------------------------------------------------
\* the step just handled is a task step and its FAILED record is the last record
JustFailedOptional ==
    /\ pc = "loop"
    /\ i > 1
    /\ ~IsHumanGate(Steps[i - 1])
    /\ Len(Records) >= 1
    /\ Records[Len(Records)].step_id = Steps[i - 1].step_id
    /\ Records[Len(Records)].status = FAILED

\* an executor wrote the key itself during one of its calls for the step at position p
ExecutorWrote(p, key, history) ==
    \E k \in 1..Len(history) :
        history[k].ev = "execute" /\ history[k].pos = p /\ key \in history[k].keys

\* C6 as stated: after an optional step failed, the run goes on and the step's
\* declared key is unset (keys an executor wrote by itself are not held against it)
C6_AsStated ==
    JustFailedOptional =>
        /\ trace.status = RUNNING
        /\ LET key == Steps[i - 1].memory_key IN
           \/ \E p \in 1..(i - 1) : ExecutorWrote(p, key, log)
           \/ ~MemoryContains(memory, key)

(* C6, amended: when the last attempt of an optional task step returns FAILED *)
(* the run is not finalized and the engine moves to the next step; the engine *)
(* writes nothing at the step's declared key: unless the step's own executor  *)
(* wrote it, the key is as it was before attempt 0 (unset if it was unset).   *)
C6_OptionalFailureContinues ==
    [][ ( /\ pc = "execute"
          /\ ~CurrentStep.required
          /\ Len(trace'.steps) = Len(trace.steps) + 1
          /\ trace'.steps[Len(trace'.steps)].status = FAILED )
        => /\ pc' = "loop"
           /\ i' = i + 1
           /\ trace'.status = RUNNING
           /\ trace'.completed_at = None
           /\ result' = PyNone
           /\ LET key == CurrentStep.memory_key IN
              \/ ExecutorWrote(i, key, log')
              \/ /\ MemoryContains(memory', key) <=> MemoryContains(input_snapshot, key)
                 /\ MemoryContains(memory', key) => memory'[key] = input_snapshot[key]
      ]_vars

C6_Witness ==
    /\ JustFailedOptional
    /\ i = 2
    /\ Len(Steps) = 2
    /\ ~Steps[1].required
    /\ Steps[1].max_retries = 2
    /\ ~MemoryContains(memory, Steps[1].memory_key)
    /\ trace.status = RUNNING

-----------------------------------------------------------------------------
\* how the condition of the step at position p was evaluated ("true" / "false")
ShouldRunLogged(p, val) ==
    \E k \in 1..Len(log) : log[k].ev = "should_run" /\ log[k].pos = p /\ log[k].val = val

HasRecord(p, status) ==
    \E k \in 1..Len(Records) :
        Records[k].step_id = Steps[p].step_id /\ Records[k].status = status

\* the step at position p was skipped, approved, or executed without ending the run
Processed(p) ==
    \/ ShouldRunLogged(p, "false") /\ HasRecord(p, SKIPPED)
    \/ /\ ShouldRunLogged(p, "true")
       /\ IF IsHumanGate(Steps[p])
          THEN \/ AutoApproved(Steps[p], interactive)
               \/ \E k \in 1..Len(log) :
                      log[k].ev = "request" /\ log[k].pos = p /\ log[k].val = "approved"
          ELSE \/ HasRecord(p, COMPLETED)
               \/ HasRecord(p, FAILED) /\ ~Steps[p].required

RequiredFailure ==
    \E p \in 1..Len(Steps) :
        ~IsHumanGate(Steps[p]) /\ Steps[p].required /\ HasRecord(p, FAILED)

GateRejected == \E k \in 1..Len(log) : log[k].ev = "request" /\ log[k].val = "rejected"

UnhandledException ==
    \E k \in 1..Len(log) :
        log[k].val = "raised" /\ log[k].ev \in {"execute", "request", "record"}

(* C7: run() returns COMPLETED exactly when every step of the definition was  *)
(* processed (skipped, approved or executed) and there was no required        *)
(* failure, no rejected gate and no unhandled exception; a COMPLETED run has  *)
(* no FAILED record of a required step.                                       *)
C7_CompletedIffAllProcessed ==
    Returned =>
        /\ result.status = COMPLETED <=>
               /\ \A p \in 1..Len(Steps) : Processed(p)
               /\ ~RequiredFailure
               /\ ~GateRejected
               /\ ~UnhandledException
        /\ result.status = COMPLETED => ~RequiredFailure

C7_Witness ==
    /\ Returned
    /\ result.status = COMPLETED
    /\ Len(Steps) = 2
    /\ HasRecord(1, FAILED)
    /\ HasRecord(2, COMPLETED)

-----------------------------------------------------------------------------
(* C8: steps are handled one at a time in declared order: the calls of the    *)
(* history and the records of the trace follow the order of the definition,   *)
(* nothing of a step after the current one has been called, every step before *)
(* the current one is fully handled, and the output of a step that just       *)
(* completed is in Memory before the next condition is evaluated.             *)
C8_DeclaredOrder ==
    Started =>
        /\ \A a, b \in 1..Len(log) : a < b => log[a].pos <= log[b].pos
        /\ \A a, b \in 1..Len(Records) :
               a < b => PosOf(Records[a].step_id) < PosOf(Records[b].step_id)
        /\ \A k \in 1..Len(log) : log[k].pos <= i
        /\ \A p \in 1..Len(Steps) : p < i => Processed(p)
        /\ ( /\ pc = "loop" /\ i > 1
             /\ ~IsHumanGate(Steps[i - 1])
             /\ HasRecord(i - 1, COMPLETED) )
           => memory[Steps[i - 1].memory_key] = Records[Len(Records)].output

C8_Witness ==
    /\ Returned
    /\ Len(Steps) = 2
    /\ Len(Records) = 2
    /\ Records[1].step_id = Steps[1].step_id
    /\ Records[2].step_id = Steps[2].step_id
    /\ Records[1].retry_count = 1
    /\ Records[2].status = COMPLETED

-----------------------------------------------------------------------------
(* C9: whenever the engine is at a step (task or gate), the step runs if it   *)
(* has no condition, runs if its condition raises, is skipped if its          *)
(* condition returns false and runs if it returns true; a step is recorded    *)
(* SKIPPED exactly when it does not run.                                      *)
C9_ShouldRunFailOpen ==
    [][ AtStep =>
          LET c == CurrentStep.condition
              e == log'[Len(log) + 1]
              ran == e.val = "true"
              skipped == /\ Len(trace'.steps) = Len(trace.steps) + 1
                         /\ trace'.steps[Len(trace'.steps)].status = SKIPPED
          IN /\ e.ev = "should_run" /\ e.pos = i
             /\ c = None => ran
             /\ c = "raises" => ran
             /\ c = "false" => ~ran
             /\ c = "has_key" => (ran <=> MemoryContains(memory, ConditionKey))
             /\ skipped <=> ~ran
      ]_vars

\* a gate whose condition raises has run, a task step whose condition is false is skipped
C9_Witness ==
    /\ Started
    /\ Len(Steps) = 2
    /\ IsHumanGate(Steps[1]) /\ Steps[1].condition = "raises"
    /\ ~IsHumanGate(Steps[2]) /\ Steps[2].condition = "has_key"
    /\ ShouldRunLogged(1, "true")
    /\ ShouldRunLogged(2, "false")

-----------------------------------------------------------------------------
(* C10: a step whose should_run is false gets one SKIPPED record with empty   *)
(* executor name, empty snapshot, empty output and zero cost; Memory, the     *)
(* aggregate counters, the gate counters and the run status are unchanged and *)
(* the engine moves to the next step.                                         *)
C10_SkippedStepFrame ==
    [][ (AtStep /\ ~ShouldRun(CurrentStep, memory)) =>
          LET n == Len(trace.steps)
              rec == trace'.steps[n + 1]
          IN /\ Len(trace'.steps) = n + 1
             /\ SubSeq(trace'.steps, 1, n) = trace.steps
             /\ rec.step_id = CurrentStep.step_id
             /\ rec.status = SKIPPED
             /\ rec.agent_name = ""
             /\ rec.input_snapshot = EmptyDict
             /\ rec.output = EmptyDict
             /\ rec.llm_calls = 0 /\ rec.tokens_used = 0 /\ rec.duration_ms = 0
             /\ memory' = memory
             /\ trace'.total_llm_calls = trace.total_llm_calls
             /\ trace'.total_tokens_used = trace.total_tokens_used
             /\ trace'.total_duration_ms = trace.total_duration_ms
             /\ trace'.human_gates_encountered = trace.human_gates_encountered
             /\ trace'.human_gates_approved = trace.human_gates_approved
             /\ trace'.status = RUNNING
             /\ pc' = "loop" /\ i' = i + 1
      ]_vars

\* a task step was skipped while Memory held data, and its key is still unset
C10_Witness ==
    /\ Started
    /\ Len(Steps) = 2
    /\ ~IsHumanGate(Steps[2])
    /\ HasRecord(1, COMPLETED)
    /\ HasRecord(2, SKIPPED)
    /\ trace.total_tokens_used > 0
    /\ ~MemoryContains(memory, Steps[2].memory_key)

-----------------------------------------------------------------------------
\* the condition of the step at position p was called and returned false
ConditionFalseAt(p) ==
    \E k \in 1..Len(log) :
        /\ log[k].ev = "should_run" /\ log[k].pos = p
        /\ Steps[p].condition # None
        /\ ~ConditionRaises(Steps[p].condition, log[k].data)
        /\ ~ConditionValue(Steps[p].condition, log[k].data)

\* the run failed because of something at another position than p
FailedElsewhere(p) ==
    \E k \in 1..Len(log) : log[k].pos # p /\ log[k].val \in {FAILED, "raised"}

\* the run was cancelled at another position than p
RejectedElsewhere(p) ==
    \E k \in 1..Len(log) : log[k].pos # p /\ log[k].ev = "request" /\ log[k].val = "rejected"

(* C11: a required task step whose condition returned false is skipped: its   *)
(* executor is never invoked, it has a SKIPPED record and no FAILED one, the  *)
(* run is not finalized by the skip and the engine goes on to the next step;  *)
(* if the run ends FAILED or CANCELLED the cause lies at another step.        *)
C11_RequiredStepSkipped ==
    Started =>
        \A p \in 1..Len(Steps) :
            (~IsHumanGate(Steps[p]) /\ Steps[p].required /\ ConditionFalseAt(p)) =>
                /\ Len(ExecEvents(p)) = 0
                /\ HasRecord(p, SKIPPED)
                /\ ~HasRecord(p, FAILED) /\ ~HasRecord(p, COMPLETED)
                /\ i > p
                /\ (pc = "loop" /\ i = p + 1) => trace.status = RUNNING
                /\ trace.status = FAILED => FailedElsewhere(p)
                /\ trace.status = CANCELLED => RejectedElsewhere(p)

\* test_skipped_step_not_in_failure: a required step is skipped, the next one
\* runs and the run is COMPLETED
C11_Witness ==
    /\ Returned
    /\ result.status = COMPLETED
    /\ Len(Steps) = 2
    /\ ~IsHumanGate(Steps[1]) /\ Steps[1].required /\ Steps[1].condition = "false"
    /\ HasRecord(1, SKIPPED)
    /\ HasRecord(2, COMPLETED)
    /\ ~MemoryContains(memory, Steps[1].memory_key)

-----------------------------------------------------------------------------
GatePositions == {p \in 1..Len(Steps) : IsHumanGate(Steps[p])}

\* gates that were reached with a true should_run
GatesReached == {p \in GatePositions : ShouldRunLogged(p, "true")}

RequestLogged(p, val) ==
    \E k \in 1..Len(log) : log[k].ev = "request" /\ log[k].pos = p /\ log[k].val = val

\* gates approved without asking, or by the approval channel
GatesApproved ==
    {p \in GatesReached :
        \/ ~interactive \/ ~Steps[p].require_approval
        \/ RequestLogged(p, "approved")}

(* C12: human_gates_encountered is the number of gates reached with a true    *)
(* condition and human_gates_approved the number of those approved (without   *)
(* asking, or by the channel); a rejected gate is counted as encountered and  *)
(* not as approved; a gate whose condition is false is counted in neither.    *)
C12_GateCounters ==
    Started =>
        /\ trace.human_gates_encountered = Cardinality(GatesReached)
        /\ trace.human_gates_approved = Cardinality(GatesApproved)
        /\ \A p \in GatePositions :
               /\ RequestLogged(p, "rejected") => p \in GatesReached \ GatesApproved
               /\ ConditionFalseAt(p) => p \notin GatesReached

\* an autonomous gate, then a rejected one: 2 encountered, 1 approved
C12_Witness ==
    /\ Returned
    /\ interactive
    /\ Len(Steps) = 2
    /\ IsHumanGate(Steps[1]) /\ ~Steps[1].require_approval
    /\ IsHumanGate(Steps[2]) /\ RequestLogged(2, "rejected")
    /\ trace.human_gates_encountered = 2
    /\ trace.human_gates_approved = 1
    /\ result.status = CANCELLED

-----------------------------------------------------------------------------
(* C13: a gate reached in a non-interactive run, or whose require_approval is *)
(* false, is approved on the spot: neither the summarizer nor the approval    *)
(* channel is called for it, it is counted as approved, the run is not        *)
(* finalized by it and the engine goes on to the next step.                   *)
C13_AutonomousApproval ==
    Started =>
        \A p \in GatesReached :
            (~Steps[p].require_approval \/ ~interactive) =>
                /\ \A k \in 1..Len(log) : log[k].pos = p => log[k].ev = "should_run"
                /\ i > p
                /\ trace.human_gates_approved >=
                       Cardinality({q \in GatesReached : q <= p /\
                                       (~Steps[q].require_approval \/ ~interactive)})
                /\ (pc = "loop" /\ i = p + 1) => trace.status = RUNNING
                /\ trace.status = CANCELLED => RejectedElsewhere(p)
                /\ trace.status = FAILED => FailedElsewhere(p)

\* test_human_gate_auto_approved_non_interactive: require_approval is true, the run is
\* not interactive, the step after the gate completes
C13_Witness ==
    /\ Returned
    /\ ~interactive
    /\ Len(Steps) = 2
    /\ IsHumanGate(Steps[1]) /\ Steps[1].require_approval
    /\ trace.human_gates_approved = 1
    /\ HasRecord(2, COMPLETED)
    /\ result.status = COMPLETED

-----------------------------------------------------------------------------
(* C14: when the summarizer of an interactive gate raises, the run is not     *)
(* finalized: the placeholder is the text shown, the approval channel is      *)
(* called next, and its answer alone decides: approved, the engine goes on to *)
(* the next step; rejected, the run is CANCELLED; the run is FAILED at this   *)
(* gate only if the channel itself raised.                                    *)
C14_SummarizerFailureTolerated ==
    Started =>
        \A k \in 1..Len(log) :
            (log[k].ev = "summarize" /\ log[k].val = "raised") =>
                LET p == log[k].pos IN
                /\ interactive
                /\ IF k = Len(log)
                   THEN /\ pc = "gate" /\ i = p
                        /\ summary = SummaryPlaceholder
                        /\ trace.status = RUNNING
                        /\ result = PyNone
                   ELSE /\ log[k + 1].ev = "request" /\ log[k + 1].pos = p
                        /\ log[k + 1].val = "approved" =>
                               /\ i > p
                               /\ p \in GatesApproved
                               /\ (pc = "loop" /\ i = p + 1) => trace.status = RUNNING
                               /\ trace.status = CANCELLED => RejectedElsewhere(p)
                        /\ log[k + 1].val = "rejected" =>
                               /\ Returned /\ result.status = CANCELLED
                               /\ p \notin GatesApproved
                        /\ (trace.status = FAILED /\ i = p) => log[k + 1].val = "raised"

\* the summarizer raised, the channel approved, the run completed
C14_Witness ==
    /\ Returned
    /\ result.status = COMPLETED
    /\ Len(Steps) = 2
    /\ \E k \in 1..(Len(log) - 1) :
           /\ log[k].ev = "summarize" /\ log[k].val = "raised" /\ log[k].pos = 1
           /\ log[k + 1].ev = "request" /\ log[k + 1].val = "approved"
    /\ HasRecord(2, COMPLETED)

-----------------------------------------------------------------------------
(* C15: the record of an executed task step is COMPLETED or FAILED.  If       *)
(* COMPLETED, the last attempt is the first one that returned COMPLETED and   *)
(* retry_count is its index; if FAILED, all max_retries attempts returned     *)
(* FAILED, retry_count is max_retries - 1 and error is the error of the last  *)
(* attempt.                                                                   *)
C15_RecordStatusAndRetryCount ==
    Started =>
        \A k \in 1..Len(Records) :
            Records[k].status # SKIPPED =>
                LET rec == Records[k]
                    p == PosOf(rec.step_id)
                    ev == ExecEvents(p)
                    n == Len(ev)
                IN /\ ~IsHumanGate(Steps[p])
                   /\ n >= 1
                   /\ rec.status \in {COMPLETED, FAILED}
                   /\ rec.status = COMPLETED =>
                          /\ ev[n].val = COMPLETED
                          /\ \A j \in 1..(n - 1) : ev[j].val = FAILED
                          /\ rec.retry_count = n - 1
                   /\ rec.status = FAILED =>
                          /\ \A j \in 1..n : ev[j].val = FAILED
                          /\ n = Steps[p].max_retries
                          /\ rec.retry_count = Steps[p].max_retries - 1
                          /\ rec.error = ev[n].data.error

\* the first step completes on its second attempt; the second step fails twice with
\* two different errors and its record holds the later one
C15_Witness ==
    /\ Started
    /\ Len(Records) = 2
    /\ Records[1].status = COMPLETED /\ Records[1].retry_count = 1
    /\ Records[2].status = FAILED /\ Records[2].retry_count = 1
    /\ ExecEvents(2)[1].data.error # Records[2].error

-----------------------------------------------------------------------------
\* the call with index k of the history made the engine write at key
EngineWrote(k, key) ==
    /\ log[k].ev = "execute"
    /\ log[k].val = COMPLETED
    /\ Steps[log[k].pos].memory_key = key

\* the calls during which key was written, by the engine or by the executor itself
Writers(key) ==
    {k \in 1..Len(log) :
        EngineWrote(k, key) \/ (log[k].ev = "execute" /\ key \in log[k].keys)}

LastOf(S) == CHOOSE k \in S : \A j \in S : j <= k

\* the values an executor may put at key by itself
ExecutorValues(key) == {w[key] : w \in {x \in ExecutorWrites : key \in DOMAIN x}}

(* C16: the value at a declared key is the output of the latest COMPLETED     *)
(* attempt of a step declaring that key, unless an executor wrote the key by  *)
(* itself in a later call; FAILED attempts and raising executors cause no     *)
(* engine write, and a key no call wrote is unset.  (An executor's own write  *)
(* during an attempt precedes the engine's write for that attempt.)           *)
C16_EngineWritesOnCompleted ==
    Started =>
        \A key \in MemoryKeys :
            IF Writers(key) = {}
            THEN ~MemoryContains(memory, key)
            ELSE LET k == LastOf(Writers(key)) IN
                 /\ MemoryContains(memory, key)
                 /\ IF EngineWrote(k, key)
                    THEN memory[key] = log[k].data.output
                    ELSE memory[key] \in ExecutorValues(key)

\* two steps declare the same key and complete with different outputs: the second wins
C16_Witness ==
    /\ Returned
    /\ Len(Steps) = 2
    /\ ~IsHumanGate(Steps[1]) /\ ~IsHumanGate(Steps[2])
    /\ Steps[1].memory_key = Steps[2].memory_key
    /\ Len(Records) = 2
    /\ Records[1].status = COMPLETED /\ Records[2].status = COMPLETED
    /\ Records[1].output # Records[2].output
    /\ memory[Steps[2].memory_key] = Records[2].output

-----------------------------------------------------------------------------
\* the store the condition of the step at position p was evaluated on: the Memory
\* right before attempt 0 of the step
MemoryBefore(p) ==
    log[CHOOSE k \in 1..Len(log) : log[k].ev = "should_run" /\ log[k].pos = p].data

(* C17: the input_snapshot of an executed task step's record, and the         *)
(* snapshot the retry loop holds meanwhile, is the Memory as it was right     *)
(* before attempt 0 of the step, whatever was written to Memory since.        *)
C17_SnapshotBeforeFirstAttempt ==
    Started =>
        /\ \A k \in 1..Len(Records) :
               Records[k].status # SKIPPED =>
                   Records[k].input_snapshot = MemoryBefore(PosOf(Records[k].step_id))
        /\ pc = "execute" => input_snapshot = MemoryBefore(i)

\* the executor of step 1 wrote "result" during a failed attempt and the step then
\* completed: its snapshot has neither that key nor its own output; step 2 ran after
C17_Witness ==
    /\ Started
    /\ Len(Records) = 2
    /\ Records[1].status = COMPLETED /\ Records[1].retry_count = 1
    /\ ExecEvents(1)[1].keys = {"result"}
    /\ Steps[1].memory_key = "classification"
    /\ Records[1].input_snapshot = initial_input
    /\ DOMAIN initial_input = {"caso", "minuta"}
    /\ Records[2].status = COMPLETED
    /\ DOMAIN Records[2].input_snapshot = {"caso", "minuta", "classification", "result"}

-----------------------------------------------------------------------------
RECURSIVE SumSeq(_)
SumSeq(q) == IF q = <<>> THEN 0 ELSE Head(q) + SumSeq(Tail(q))

(* C18: in every state of a run, total_llm_calls, total_tokens_used and       *)
(* total_duration_ms are the sums of llm_calls, tokens_used and duration_ms   *)
(* over the records of the trace, and SKIPPED records hold zero in all three. *)
C18_AggregatesAreSums ==
    Started =>
        /\ trace.total_llm_calls = SumSeq([k \in 1..Len(Records) |-> Records[k].llm_calls])
        /\ trace.total_tokens_used = SumSeq([k \in 1..Len(Records) |-> Records[k].tokens_used])
        /\ trace.total_duration_ms = SumSeq([k \in 1..Len(Records) |-> Records[k].duration_ms])
        /\ \A k \in 1..Len(Records) :
               Records[k].status = SKIPPED =>
                   /\ Records[k].llm_calls = 0
                   /\ Records[k].tokens_used = 0
                   /\ Records[k].duration_ms = 0

\* an optional step failed after one LLM call, the next one completed
C18_Witness ==
    /\ Returned
    /\ Len(Records) = 2
    /\ Records[1].status = FAILED /\ Records[1].tokens_used = 50
    /\ Records[2].status = COMPLETED /\ Records[2].tokens_used = 200
    /\ trace.total_tokens_used = 250
    /\ trace.total_llm_calls = 3
    /\ trace.total_duration_ms = 25

-----------------------------------------------------------------------------
\* the records of the trace for the step at position p
RecordsOf(p) == {k \in 1..Len(Records) : Records[k].step_id = Steps[p].step_id}

RanPositions == {p \in 1..Len(Steps) : ShouldRunLogged(p, "true")}
SkippedPositions == {p \in 1..Len(Steps) : ShouldRunLogged(p, "false")}

ZeroCostSkipped(rec) ==
    /\ rec.status = SKIPPED
    /\ rec.llm_calls = 0 /\ rec.tokens_used = 0 /\ rec.duration_ms = 0

\* C19 as stated: at the end of a run the trace has as many records as steps whose
\* should_run was true, and every other processed step has a zero-cost SKIPPED record
\* (runs ended by an exception and definitions with gates are not held against it)
C19_AsStated ==
    (Returned /\ ~UnhandledException /\ GatePositions = {}) =>
        /\ Len(Records) = Cardinality(RanPositions)
        /\ \A p \in SkippedPositions : \E k \in RecordsOf(p) : ZeroCostSkipped(Records[k])

\* the retry loop of the task step at position p ended with a returned outcome
TaskEnded(p) ==
    /\ ~IsHumanGate(Steps[p])
    /\ ShouldRunLogged(p, "true")
    /\ LET ev == ExecEvents(p)
           n == Len(ev)
       IN /\ n >= 1
          /\ \/ ev[n].val = COMPLETED
             \/ ev[n].val = FAILED /\ n = Steps[p].max_retries

(* C19, amended: the trace holds one record for every step whose should_run   *)
(* was false, a SKIPPED record with zero cost fields, and one for every task  *)
(* step whose attempts ended COMPLETED or FAILED, and no other record: gate   *)
(* steps, and task steps ended by an exception, have none.  len(trace.steps)  *)
(* is the number of the former plus the number of the latter.                 *)
C19_RecordCount ==
    Started =>
        LET skipped == SkippedPositions
            ended == {p \in 1..Len(Steps) : TaskEnded(p)}
        IN /\ Len(Records) = Cardinality(skipped) + Cardinality(ended)
           /\ \A p \in 1..Len(Steps) :
                  LET recs == RecordsOf(p) IN
                  /\ p \in skipped =>
                         /\ Cardinality(recs) = 1
                         /\ \A k \in recs : ZeroCostSkipped(Records[k])
                  /\ p \in ended =>
                         /\ Cardinality(recs) = 1
                         /\ \A k \in recs : Records[k].status \in {COMPLETED, FAILED}
                  /\ (p \notin skipped /\ p \notin ended) => recs = {}

\* one step skipped, one completed: two records, one step whose should_run was true
C19_Witness ==
    /\ Returned
    /\ Len(Steps) = 2
    /\ HasRecord(1, SKIPPED)
    /\ HasRecord(2, COMPLETED)
    /\ Len(Records) = 2
    /\ Cardinality(RanPositions) = 1

-----------------------------------------------------------------------------
\* the gate at position p was approved or rejected
GateEnded(p) ==
    /\ IsHumanGate(Steps[p])
    /\ \/ p \in GatesApproved
       \/ RequestLogged(p, "rejected")

\* C20 as stated: every step reached and not skipped, a task step ended COMPLETED or
\* FAILED or a gate approved or rejected, has exactly one record, and no step has
\* more than one
C20_AsStated ==
    Started =>
        \A p \in 1..Len(Steps) :
            /\ (TaskEnded(p) \/ GateEnded(p)) => Cardinality(RecordsOf(p)) = 1
            /\ Cardinality(RecordsOf(p)) <= 1

-----------------------------------------------------------------------------
\* C21 as stated: the confidence of every record of the trace lies in [0,1]
\* (hundredths: 0..100), whatever the executor reported
C21_AsStated ==
    Started => \A k \in 1..Len(Records) : Records[k].confidence \in 0..100

-----------------------------------------------------------------------------
RunIds == {1, 2}

\* the locals of the run() call with the given id
RunOf(r) == IF run_id = r THEN CurrentRun ELSE parked

\* the call passed the registry check: its Memory and Trace exist
RunCreated(run) == run.pc \notin {"idle", "raised"}

\* WorkflowTrace.complete was called on the trace of the run
TraceFinalized(run) == RunCreated(run) /\ run.trace.completed_at # None

(* C22: the trace of a run is finalized (terminal status and completion       *)
(* timestamp set) exactly when run() returns, in the same step, and from then *)
(* on no step of this or of another run on the engine changes it: no record   *)
(* is appended, no aggregate or counter changes, status and error stay, and   *)
(* the Result keeps holding that trace.                                       *)
C22_FinalizedOnce ==
    /\ [](\A r \in RunIds :
             RunCreated(RunOf(r)) =>
                 /\ TraceFinalized(RunOf(r)) <=> RunOf(r).pc = "returned"
                 /\ TraceFinalized(RunOf(r)) <=> RunOf(r).trace.status \in TerminalStatus
                 /\ RunOf(r).pc = "returned" => RunOf(r).result.trace = RunOf(r).trace)
    /\ [][\A r \in RunIds :
             TraceFinalized(RunOf(r)) =>
                 /\ RunOf(r)'.trace = RunOf(r).trace
                 /\ RunOf(r)'.result = RunOf(r).result]_vars

\* a run was cancelled at its gate with one record in its trace; the other run
\* on the engine has appended two records since and returned too
C22_Witness ==
    /\ RunOf(1).pc = "returned" /\ RunOf(2).pc = "returned"
    /\ RunOf(1).trace.status = CANCELLED
    /\ Len(RunOf(1).trace.steps) = 1
    /\ RunOf(1).trace.human_gates_encountered = 1
    /\ run_id = 2
    /\ Len(trace.steps) = 2
    /\ trace.status = COMPLETED

-----------------------------------------------------------------------------
(* C23: run() with a name that is not registered raises before anything is    *)
(* created or called: no memory, no trace, no result, no call to a condition, *)
(* executor or gate, and the registry holds only what register() put there;   *)
(* a run that started is a run of a registered name.                          *)
C23_UnregisteredRaises ==
    /\ pc = "raised" =>
           /\ workflow_name \notin DOMAIN workflows
           /\ memory = EmptyDict
           /\ trace = PyNone
           /\ result = PyNone
           /\ log = <<>>
           /\ i = 0
    /\ Started => workflow_name \in DOMAIN workflows
    /\ \A n \in DOMAIN workflows : n \in WorkflowNames /\ workflows[n].name = n

\* test_unregistered_workflow_raises, with a two-step definition registered
C23_Witness ==
    /\ pc = "raised"
    /\ workflow_name = "nonexistent"
    /\ DOMAIN workflows = {"wf"}
    /\ Len(workflows["wf"].steps) = 2

-----------------------------------------------------------------------------
\* the COMPLETED call of the executor of the step at position p
CompletedCall(p) ==
    CHOOSE k \in 1..Len(log) :
        log[k].ev = "execute" /\ log[k].pos = p /\ log[k].val = COMPLETED

(* C24: when run() returns CANCELLED or FAILED, the Result's memory is the    *)
(* store as it was at the point of termination: every key of the initial      *)
(* input is there (with its initial value unless something wrote it since)    *)
(* and so is the key of every step that completed (with that step's output    *)
(* unless something wrote the key after it).                                  *)
C24_NoRollback ==
    (Returned /\ result.status \in {CANCELLED, FAILED}) =>
        /\ result.memory = memory
        /\ \A key \in DOMAIN initial_input :
               /\ key \in DOMAIN result.memory
               /\ Writers(key) = {} => result.memory[key] = initial_input[key]
        /\ \A k \in 1..Len(Records) :
               Records[k].status = COMPLETED =>
                   LET p == PosOf(Records[k].step_id)
                       key == Steps[p].memory_key
                   IN /\ key \in DOMAIN result.memory
                      /\ LastOf(Writers(key)) = CompletedCall(p) =>
                             result.memory[key] = Records[k].output

\* a step completed, the gate after it was rejected: input and output are in the Result
C24_Witness ==
    /\ Returned
    /\ result.status = CANCELLED
    /\ Len(Steps) = 2
    /\ HasRecord(1, COMPLETED)
    /\ RequestLogged(2, "rejected")
    /\ DOMAIN result.memory = {"caso", "minuta", Steps[1].memory_key}
    /\ result.memory[Steps[1].memory_key] = Records[1].output

-----------------------------------------------------------------------------
\* C25 as stated: final_output is the restriction of the final memory to the
\* deliverable keys: a deliverable key is delivered exactly when the memory holds it
C25_AsStated ==
    Returned =>
        /\ DOMAIN result.final_output = KeyOutputs \cap DOMAIN result.memory
        /\ \A key \in DOMAIN result.final_output :
               result.final_output[key] = result.memory[key]

(* C25, amended: for every terminal status, final_output holds exactly the    *)
(* deliverable keys that the final memory holds with a value other than None, *)
(* each with the memory's value; a deliverable key whose value is None, and   *)
(* every other key, is left out.                                              *)
C25_FinalOutput ==
    Returned =>
        /\ DOMAIN result.final_output =
               {key \in KeyOutputs \cap DOMAIN result.memory : result.memory[key] # PyNone}
        /\ \A key \in DOMAIN result.final_output :
               result.final_output[key] = result.memory[key]
        /\ result.memory = memory

\* the input holds a deliverable key with None and another key, a step delivered
\* "classification": only that one is in final_output
C25_Witness ==
    /\ Returned
    /\ result.status = FAILED
    /\ DOMAIN result.memory = {"caso", "minuta", "classification"}
    /\ result.memory["minuta"] = PyNone
    /\ DOMAIN result.final_output = {"classification"}

-----------------------------------------------------------------------------
\* the steps of the definition the run executes
RunSteps(run) == workflows[run.workflow_name].steps

\* what the executor wrote by itself during the call ev records
OwnWrites(ev) == [key \in ev.keys |-> CHOOSE v \in ExecutorValues(key) : TRUE]

\* the store of the run after the first k calls of its own history, starting from
\* its own initial input
RECURSIVE ReplayMemory(_, _)
ReplayMemory(run, k) ==
    IF k = 0 THEN MemoryUpdate(EmptyDict, run.initial_input)
    ELSE LET prev == ReplayMemory(run, k - 1)
             ev == run.log[k]
         IN IF ev.ev # "execute" THEN prev
            ELSE IF ev.val = COMPLETED
            THEN MemorySet(MemoryUpdate(prev, OwnWrites(ev)),
                           RunSteps(run)[ev.pos].memory_key, ev.data.output)
            ELSE MemoryUpdate(prev, OwnWrites(ev))

\* the record is explained by a call of the run's own history
OwnRecord(run, rec) ==
    \E p \in 1..Len(RunSteps(run)) :
        /\ RunSteps(run)[p].step_id = rec.step_id
        /\ \E k \in 1..Len(run.log) :
               /\ run.log[k].pos = p
               /\ IF rec.status = SKIPPED
                  THEN run.log[k].ev = "should_run" /\ run.log[k].val = "false"
                  ELSE /\ run.log[k].ev = "execute"
                       /\ run.log[k].val = rec.status
                       /\ run.log[k].data.output = rec.output
                       /\ run.log[k].data.tokens_used = rec.tokens_used

\* the steps of the run's own history that ended with a record: the last call
\* made for the step is a false condition or a returned outcome, and the step is
\* not between two attempts
OwnRecorded(run) ==
    {p \in 1..Len(RunSteps(run)) :
        \E k \in 1..Len(run.log) :
            /\ run.log[k].pos = p
            /\ \A j \in (k + 1)..Len(run.log) : run.log[j].pos # p
            /\ \/ run.log[k].ev = "should_run" /\ run.log[k].val = "false"
               \/ /\ run.log[k].ev = "execute"
                  /\ run.log[k].val \in {COMPLETED, FAILED}
                  /\ run.pc # "execute" \/ run.i # p}

\* the gates the run's own history reached
OwnGates(run) ==
    {p \in 1..Len(RunSteps(run)) :
        /\ IsHumanGate(RunSteps(run)[p])
        /\ \E k \in 1..Len(run.log) :
               run.log[k].pos = p /\ run.log[k].ev = "should_run" /\ run.log[k].val = "true"}

-----------------------------------------------------------------------------
\* the error text run() has at hand when it returns FAILED
FailureText ==
    IF UnhandledException THEN RaisedMessage(LastEvent.ev)
    ELSE RequiredStepError(Steps[i], LastEvent.data)

\* C28 as stated: a FAILED Result carries the error string (step and last error of a
\* required failure, message of an exception), a COMPLETED or CANCELLED one carries none
C28_AsStated ==
    Returned =>
        /\ result.status = FAILED => result.error = FailureText
        /\ result.status \in {COMPLETED, CANCELLED} => result.error = None

-----------------------------------------------------------------------------
\* what get(key, default) returns on a store of the given content
ExpectedGet(view, key, default) ==
    IF key \in DOMAIN view.slots THEN view.slots[key] ELSE AtomView(default.v)

(* C26: the dict snapshot() returns shares no object with the live store.     *)
(* The live store holds what the set/update calls gave it, whatever the       *)
(* caller did to the copy (nested dicts and lists included), and a value a    *)
(* get returned still shows what it showed; the copy holds what the store     *)
(* held when it was taken plus the caller's own changes, whatever was set or  *)
(* updated on the store since.                                                *)
C26_SnapshotIndependent ==
    /\ View(heap, Ref(store_ref)) = live_view
    /\ call.op = "get" => View(heap, answer) = ExpectedGet(live_view, call.keys[1], call.default)
    /\ snapshot_ref # 0 =>
           /\ View(heap, Ref(snapshot_ref)) = snapshot_view
           /\ Reachable(heap, {store_ref}) \cap Reachable(heap, {snapshot_ref}) = {}

\* test_snapshot_is_deep_copy: set("data", {"list": [...]}), snapshot, get("data"),
\* append to the copy's list: the copy has the new element, the store has not
C26_Witness ==
    /\ snapshot_ref # 0
    /\ call.op = "get" /\ call.keys = <<"data">>
    /\ View(heap, answer) = ShapeView("nested")
    /\ PathPresent(live_view, <<"data">>)
    /\ ViewAt(live_view, <<"data">>) = ShapeView("nested")
    /\ PathPresent(snapshot_view, <<"data", "list">>)
    /\ DOMAIN ViewAt(snapshot_view, <<"data", "list">>).slots = {"0", "1"}

-----------------------------------------------------------------------------
\* the run waits at the gate at position i for the approval channel
AtGate == pc = "gate"

\* nothing beyond the gate has happened, and the gate is not counted as approved
GateBlocks ==
    AtGate =>
        /\ IsHumanGate(Steps[i]) /\ interactive /\ Steps[i].require_approval
        /\ \A k \in 1..Len(log) : log[k].pos <= i
        /\ ~RequestLogged(i, "approved") /\ ~RequestLogged(i, "rejected")
        /\ trace.human_gates_approved = Cardinality(GatesApproved \ {i})
        /\ trace.status = RUNNING

\* while no decision is returned the run stays where it is; it leaves the gate only
\* with the channel's answer for this gate
GateWaits ==
    AtGate =>
        \/ pc' = pc /\ i' = i /\ log' = log /\ trace' = trace /\ memory' = memory
        \/ /\ pc' \in {"loop", "returned"}
           /\ log' = Append(log, log'[Len(log')])
           /\ log'[Len(log')].ev = "request" /\ log'[Len(log')].pos = i
           /\ log'[Len(log')].val = "approved" <=>
                  (pc' = "loop" /\ i' = i + 1
                   /\ trace'.human_gates_approved = trace.human_gates_approved + 1)

(* C29: a run that started returns, given that executor calls come back and   *)
(* the approval channel ends up deciding; while an interactive gate waits for *)
(* the channel no later step starts and the approvals counter stays, and the  *)
(* run goes on past the gate only with an approval of that gate.              *)
C29_TerminatesAndGateBlocks ==
    /\ (Running ~> Returned)
    /\ []GateBlocks
    /\ [][GateWaits]_vars

\* a run of a step with retries and an interactive gate: the executor failed once,
\* succeeded, the gate was approved and the run returned COMPLETED
C29_Witness ==
    /\ Returned
    /\ result.status = COMPLETED
    /\ interactive
    /\ Len(Steps) = 2
    /\ IsHumanGate(Steps[2]) /\ Steps[2].require_approval
    /\ ~IsHumanGate(Steps[1]) /\ Steps[1].max_retries = MaxRetries
    /\ Records[1].retry_count = 1
    /\ RequestLogged(2, "approved")

-----------------------------------------------------------------------------
(* C30: get_nested returns the value at the end of the path when every key of *)
(* the path is present, each in a mapping, and the default otherwise (a key   *)
(* is missing, or the value before it is no mapping); it does not raise.      *)
(* For paths of 0 to 3 keys and every store content.                          *)
C30_GetNested ==
    call.op = "get_nested" =>
        /\ answer # RaisedCell
        /\ View(heap, answer) =
               IF PathPresent(live_view, call.keys) THEN ViewAt(live_view, call.keys)
               ELSE AtomView(call.default.v)

\* the value before the last key is no mapping: the default comes back
C30_Witness ==
    /\ call.op = "get_nested"
    /\ call.keys = <<"classification", "area", "missing">>
    /\ call.default = Atom(5)
    /\ PathPresent(live_view, <<"classification", "area">>)
    /\ ViewAt(live_view, <<"classification">>) = ShapeView("flat")
    /\ answer = Atom(5)

-----------------------------------------------------------------------------
\* how the run ended, from the calls the engine made
EndedNormally == ~RequiredFailure /\ ~GateRejected /\ ~UnhandledException

(* C36: the status of the Result run() returns is the status of the Result's  *)
(* trace, and that trace is the run's trace with its completion timestamp     *)
(* set, on each of the four ways a run ends: normally (COMPLETED), with a     *)
(* required step's failure (FAILED), with a gate's rejection (CANCELLED) and  *)
(* with an unhandled exception (FAILED).                                      *)
C36_ResultStatusIsTraceStatus ==
    Returned =>
        /\ result.trace = trace
        /\ result.status = result.trace.status
        /\ result.trace.completed_at # None
        /\ EndedNormally => result.trace.status = COMPLETED
        /\ RequiredFailure => result.trace.status = FAILED
        /\ GateRejected => result.trace.status = CANCELLED
        /\ UnhandledException => result.trace.status = FAILED

\* the path through the top-level handler: the executor of the second step raised
\* after the first step was recorded
C36_Witness ==
    /\ Returned
    /\ UnhandledException
    /\ Len(Steps) = 2
    /\ Len(Records) = 1 /\ Records[1].status = COMPLETED
    /\ log[Len(log)] = Event("execute", 2, "raised", {})
    /\ result.status = FAILED
    /\ result.trace.status = FAILED
    /\ result.trace.completed_at = "set"

-----------------------------------------------------------------------------
\* the requests the approval channel answered with a rejection
RejectedRequests == {k \in 1..Len(log) : log[k].ev = "request" /\ log[k].val = "rejected"}

(* C37: in every state of a run human_gates_approved <= human_gates_encountered *)
(* <= human_gates_approved + 1; a COMPLETED run ends with the two equal and a *)
(* CANCELLED run with encountered = approved + 1: a run has at most one       *)
(* rejected gate, and it is the last gate the run reached.                    *)
C37_GateCountersDifferByAtMostOne ==
    Started =>
        /\ trace.human_gates_approved <= trace.human_gates_encountered
        /\ trace.human_gates_encountered <= trace.human_gates_approved + 1
        /\ Cardinality(RejectedRequests) <= 1
        /\ \A k \in RejectedRequests :
               /\ k = Len(log)
               /\ \A p \in GatesReached : p <= log[k].pos
        /\ Returned /\ result.status = COMPLETED =>
               trace.human_gates_encountered = trace.human_gates_approved
        /\ Returned /\ result.status = CANCELLED =>
               trace.human_gates_encountered = trace.human_gates_approved + 1

\* an interactive run of two gates: the first was approved by the channel, the
\* second rejected
C37_Witness ==
    /\ Returned
    /\ result.status = CANCELLED
    /\ interactive
    /\ Len(Steps) = 2
    /\ IsHumanGate(Steps[1]) /\ IsHumanGate(Steps[2])
    /\ RequestLogged(1, "approved")
    /\ RequestLogged(2, "rejected")
    /\ trace.human_gates_encountered = 2
    /\ trace.human_gates_approved = 1

-----------------------------------------------------------------------------
\* the StepResults execute() returned for the step at position p, in call order
ReturnedResults(p) == SelectSeq(log, LAMBDA e : e.ev = "execute" /\ e.pos = p /\ e.val # "raised")

\* the StepResult of the terminal attempt of the step at position p
TerminalResult(p) == ReturnedResults(p)[Len(ReturnedResults(p))].data

\* the records of task steps that were executed (not skipped)
ExecutedRecords == {k \in 1..Len(Records) : Records[k].status # SKIPPED}

CostOf(rec) == <<rec.llm_calls, rec.tokens_used, rec.duration_ms>>

(* C38: the record of a task step carries the cost counters (llm_calls,       *)
(* tokens_used, duration_ms) of its terminal attempt only, and the run's      *)
(* totals are the sums over the records: what earlier FAILED attempts of a    *)
(* retried step cost is added nowhere.                                        *)
C38_CostOfTerminalAttemptOnly ==
    Started =>
        /\ \A k \in ExecutedRecords :
               LET p == PosOf(Records[k].step_id) IN
                 /\ ReturnedResults(p) # <<>>
                 /\ Records[k].retry_count = Len(ReturnedResults(p)) - 1
                 /\ CostOf(Records[k]) = CostOf(TerminalResult(p))
        /\ trace.total_llm_calls = SumSeq([k \in 1..Len(Records) |-> Records[k].llm_calls])
        /\ trace.total_tokens_used = SumSeq([k \in 1..Len(Records) |-> Records[k].tokens_used])
        /\ trace.total_duration_ms = SumSeq([k \in 1..Len(Records) |-> Records[k].duration_ms])

\* a step whose first attempt failed after one LLM call of 50 tokens and whose second
\* attempt completed with 100 tokens: the run's totals show the second attempt only
C38_Witness ==
    /\ Returned
    /\ Len(Steps) = 1
    /\ Len(Records) = 1
    /\ Records[1].status = COMPLETED
    /\ Records[1].retry_count = 1
    /\ Len(ReturnedResults(1)) = 2
    /\ ReturnedResults(1)[1].data.tokens_used = 50
    /\ ReturnedResults(1)[1].data.llm_calls = 1
    /\ Records[1].tokens_used = 100
    /\ trace.total_tokens_used = 100
    /\ trace.total_llm_calls = 1

-----------------------------------------------------------------------------
(* Definitions as a caller may declare them: AgentStep, HumanGateStep,        *)
(* WorkflowDefinition and register() validate nothing, so a step's id is any  *)
(* string and max_retries any integer.                                        *)

\* values of step_id a caller gives its steps
DeclaredStepIds == {"classify", "review"}

\* values of max_retries a caller gives: the int field takes 0 and negative numbers
DeclaredMaxRetries == {-1, 0, MaxRetries}

\* AgentStep(step_id=..., agent=..., memory_key=..., max_retries=..., required=...)
DeclaredAgentSteps ==
    [step_type : {"agent"}, step_id : DeclaredStepIds, agent : {"MockAgent"},
     memory_key : {ConditionKey}, max_retries : DeclaredMaxRetries, required : BOOLEAN,
     condition : DeclaredConditions]

\* HumanGateStep(step_id=..., prompt_fn=..., require_approval=...)
DeclaredGateSteps ==
    [step_type : {"human_gate"}, step_id : DeclaredStepIds, require_approval : BOOLEAN,
     condition : {None}]

\* WorkflowDefinition(name, steps): the steps in the order given, ids as given
DeclaredDefinitions ==
    UNION { { [name |-> nm, steps |-> [p \in 1..n |-> f[p]]] :
                f \in [1..n -> DeclaredAgentSteps \cup DeclaredGateSteps],
                nm \in WorkflowNames } : n \in 1..MaxSteps }

\* make_mock_agent("ClassifierAgent", classify_output) of test_register_and_run: the
\* output dict carries a "confidence" key of its own
MockClassifyResult ==
    [status |-> COMPLETED,
     output |-> [area |-> "trabalhista", subarea |-> "rescisao", urgencia |-> "media",
                 complexidade |-> "medio", procedimento |-> "rito_ordinario",
                 partes |-> EmptyDict, fatos_principais |-> <<>>, confidence |-> 90],
     error |-> None, confidence |-> 90, duration_ms |-> 10, llm_calls |-> 1,
     tokens_used |-> 100, retry_count |-> 0]

\* what the executors of these definitions return
DeclaredResults == ExecutorResults \cup {MockClassifyResult}

\* the engine, given one of these definitions
NextDeclared ==
    \/ pc = "idle" /\ workflows = EmptyDict /\ \E w \in DeclaredDefinitions : Register(w)
    \/ \E name \in WorkflowNames \cup UnregisteredNames : RunUnregistered(name)
    \/ \E name \in WorkflowNames, input \in InitialInputs, inter \in BOOLEAN :
           RunStart(name, input, inter)
    \/ StepSkipped
    \/ GateAutoApprove
    \/ \E prompt_raises \in BOOLEAN : GatePresent(prompt_raises)
    \/ GateApprove
    \/ GateReject
    \/ GateInvalidResponse
    \/ GateInputRaises
    \/ AgentStepBegin
    \/ AgentStepNoAttempt
    \/ \E r \in DeclaredResults, writes \in ExecutorWrites : ExecuteCompleted(r, writes)
    \/ \E r \in DeclaredResults, writes \in ExecutorWrites : ExecuteFailedRetry(r, writes)
    \/ \E r \in DeclaredResults, writes \in ExecutorWrites : ExecuteFailedRequired(r, writes)
    \/ \E r \in DeclaredResults, writes \in ExecutorWrites : ExecuteFailedOptional(r, writes)
    \/ \E writes \in ExecutorWrites : ExecuteRaises(writes)
    \/ Finish

\* the engine goes on by itself, executor calls come back and the approval channel
\* ends up deciding
SpecDeclared == Init /\ [][NextDeclared]_vars /\ Fairness

-----------------------------------------------------------------------------
\* task steps declared with no attempt at all
NoAttemptSteps ==
    {p \in 1..Len(Steps) : ~IsHumanGate(Steps[p]) /\ Steps[p].max_retries <= 0}

\* the steps before position p that left a record: task steps, and skipped steps
RecordedBefore(p) ==
    {q \in 1..(p - 1) : ~IsHumanGate(Steps[q]) \/ ShouldRunLogged(q, "false")}

(* C39: when a task step declared with max_retries 0 or less is reached with  *)
(* a true condition, its executor is never called and the trace gets no       *)
(* record for it; the run is finalized FAILED by the top-level handler of     *)
(* run() (the error is the exception's text), whether the step is required or *)
(* optional, and no step after it is evaluated or executed.                   *)
C39_NoAttemptStepFailsRun ==
    Started =>
        \A p \in NoAttemptSteps :
            ShouldRunLogged(p, "true") =>
                /\ ExecEvents(p) = <<>>
                /\ Len(Records) = Cardinality(RecordedBefore(p))
                /\ (\A q \in 1..Len(Steps) : q # p => Steps[q].step_id # Steps[p].step_id)
                       => \A k \in 1..Len(Records) : Records[k].step_id # Steps[p].step_id
                /\ Returned
                /\ result.status = FAILED
                /\ trace.status = FAILED /\ trace.completed_at # None
                /\ trace.error = NoAttemptError
                /\ log[Len(log)] = Event("record", p, "raised", {})
                /\ \A k \in 1..Len(log) : log[k].pos <= p

\* an optional first step declared with max_retries = -1: the run ends FAILED there
\* with an empty trace and the second step is never looked at
C39_Witness ==
    /\ Returned
    /\ Len(Steps) = 2
    /\ ~IsHumanGate(Steps[1]) /\ Steps[1].max_retries = -1 /\ ~Steps[1].required
    /\ ~IsHumanGate(Steps[2]) /\ Steps[2].max_retries = MaxRetries
    /\ ShouldRunLogged(1, "true")
    /\ result.status = FAILED
    /\ Records = <<>>
    /\ \A k \in 1..Len(log) : log[k].pos = 1

-----------------------------------------------------------------------------
\* no two steps of the sequence have the same id
UniqueStepIds(steps) ==
    \A p, q \in 1..Len(steps) : p # q => steps[p].step_id # steps[q].step_id

\* C32 as stated: no definition the engine holds has two steps with the same id, and
\* no trace of a run has two records with the same step id
C32_AsStated ==
    /\ \A nm \in DOMAIN workflows : UniqueStepIds(workflows[nm].steps)
    /\ Started => UniqueStepIds(Records)

-----------------------------------------------------------------------------
\* every attempt the step at position p declares was made and returned FAILED
FailedAllAttempts(p) ==
    /\ ExecEvents(p) # <<>>
    /\ Len(ExecEvents(p)) = Steps[p].max_retries
    /\ \A k \in 1..Len(ExecEvents(p)) : ExecEvents(p)[k].val = FAILED

\* the step at position p wrote its output to the key
WroteOutput(p, key) ==
    /\ ~IsHumanGate(Steps[p]) /\ Steps[p].memory_key = key
    /\ \E k \in 1..Len(ExecEvents(p)) : ExecEvents(p)[k].val = COMPLETED

\* A at position p is an optional task step that alone would have written the key
\* the condition of B at position q reads: the input of the run does not hold the
\* key, no executor wrote it by itself and no other step before B wrote it
OnlyWriterFailed(p, q) ==
    /\ p < q /\ q <= Len(Steps)
    /\ ~IsHumanGate(Steps[p]) /\ ~Steps[p].required
    /\ Steps[p].memory_key = ConditionKey
    /\ Steps[q].condition = "confident"
    /\ FailedAllAttempts(p)
    /\ ConditionKey \notin DOMAIN initial_input
    /\ \A k \in 1..Len(log) : log[k].ev = "execute" => ConditionKey \notin log[k].keys
    /\ \A r \in 1..(q - 1) : r # p => ~WroteOutput(r, ConditionKey)

\* the record the step at position q left (task steps and skipped steps leave one)
RecordAt(q) == Records[Cardinality(RecordedBefore(q)) + 1]

\* the condition of the step at position q was evaluated
Evaluated(q) == ShouldRunLogged(q, "true") \/ ShouldRunLogged(q, "false")

\* B's condition came out false and B has its SKIPPED record; a run that returned
\* with B as its last step returned COMPLETED
SkippedAfterFailedWriter ==
    Started =>
        \A p, q \in 1..Len(Steps) :
            OnlyWriterFailed(p, q) /\ Evaluated(q) =>
                /\ ShouldRunLogged(q, "false")
                /\ ~ShouldRunLogged(q, "true")
                /\ ExecEvents(q) = <<>>
                /\ Len(Records) > Cardinality(RecordedBefore(q))
                /\ RecordAt(q).step_id = Steps[q].step_id
                /\ RecordAt(q).status = SKIPPED
                /\ Returned /\ q = Len(Steps) => result.status = COMPLETED

\* the loop stands at B, the last step, after A failed on all its attempts
AtConditionalStep ==
    /\ pc = "loop"
    /\ i = Len(Steps)
    /\ \E p \in 1..Len(Steps) : OnlyWriterFailed(p, i)

(* C31: when an optional task step A failed on all its attempts and a later   *)
(* step B has a condition that reads, with a default, a key only A would have *)
(* written, B's condition is false, B gets a SKIPPED record and is not        *)
(* executed, and the run, coming to B as its last step, returns COMPLETED.    *)
C31_SkippedThenCompleted ==
    /\ []SkippedAfterFailedWriter
    /\ (AtConditionalStep ~> (Returned /\ result.status = COMPLETED))

\* A failed twice, B was skipped on the missing classification.confidence and the run
\* returned COMPLETED with the two records FAILED and SKIPPED
C31_Witness ==
    /\ Returned
    /\ result.status = COMPLETED
    /\ Len(Steps) = 2
    /\ OnlyWriterFailed(1, 2)
    /\ Steps[1].max_retries = MaxRetries
    /\ ~IsHumanGate(Steps[2]) /\ Steps[2].required
    /\ Len(Records) = 2
    /\ Records[1].status = FAILED /\ Records[1].retry_count = MaxRetries - 1
    /\ Records[2].status = SKIPPED
    /\ ~MemoryContains(memory, ConditionKey)

-----------------------------------------------------------------------------
(* The agents and the conditions on their own: a classification and a review  *)
(* are parsed from what the LLM returned, stored as the engine stores a       *)
(* step's output, and the conditions of the definitions are evaluated on the  *)
(* store.                                                                     *)

\* a raw output with the key, or without it
OptionalField(key, values) == {EmptyDict} \cup {[k \in {key} |-> v] : v \in values}

\* JSON objects the LLM may return to the ClassifierAgent
ClassifierRaws ==
    { DictUpdate([area |-> a, urgencia |-> u, complexidade |-> c], f) :
        a \in {"trabalhista", "invalido"},
        u \in {"urgente", "xyzzy"},
        c \in {"complexo", "medio"},
        f \in OptionalField("confidence", {30, 90}) }

\* entries of "issues": with and without a description, severities valid and invalid
RawIssues ==
    { [tipo |-> "citacao", descricao |-> "art. 999 nao existe", severidade |-> "alta"],
      [tipo |-> "completude", descricao |-> "falta pedido", severidade |-> "media"],
      [tipo |-> "citacao", severidade |-> "alta"],
      [descricao |-> "prazo vencendo", severidade |-> "INVALIDA"] }

RawIssueLists ==
    {<<>>} \cup {<<a>> : a \in RawIssues} \cup {<<a, b>> : a \in RawIssues, b \in RawIssues}

\* JSON objects the LLM may return to the ReviewerAgent (the empty object among them)
ReviewerRaws ==
    { DictUpdate(DictUpdate(DictUpdate(a, sc), rec), iss) :
        a \in OptionalField("aprovado", BOOLEAN),
        sc \in OptionalField("score_qualidade", {0, 55, 79, 80, 150}),
        rec \in OptionalField("recomendacao", {"aprovar", "revisar", "rejeitar", "talvez"}),
        iss \in OptionalField("issues", RawIssueLists) }

\* step "classify": ClassifierAgent.execute; the engine stores result.output under
\* "classification"
ClassifyExecutes(raw) ==
    /\ agent_pc = "start"
    /\ LET r == AgentExecute(raw, ClassifierAgent_parse_output(raw)) IN
         /\ agent_result' = [agent_result EXCEPT !.classifier = r]
         /\ agent_memory' = MemorySet(agent_memory, "classification", r.output)
    /\ llm_raw' = [llm_raw EXCEPT !.classifier = raw]
    /\ agent_pc' = "classified"
    /\ UNCHANGED <<conditions, workflows, RunVars, HostVars, StoreVars>>

\* the step after classify (analyze of triagem_rapida, research of recurso_ordinario):
\* should_run evaluates its condition on the store
ConfidenceConditionEvaluated ==
    /\ agent_pc = "classified"
    /\ conditions' = [conditions EXCEPT !.confident = ConfidentEnough(agent_memory)]
    /\ agent_pc' = "analyzed"
    /\ UNCHANGED <<llm_raw, agent_result, agent_memory, workflows, RunVars, HostVars, StoreVars>>

\* step "review" of peticao_inicial (optional, one attempt): ReviewerAgent.execute; the
\* engine stores the output of a COMPLETED result under "revisao"
ReviewExecutes(raw) ==
    /\ agent_pc = "analyzed"
    /\ LET r == AgentExecute(raw, ReviewerAgent_parse_output(raw)) IN
         /\ agent_result' = [agent_result EXCEPT !.reviewer = r]
         /\ agent_memory' = IF r.status = COMPLETED
                             THEN MemorySet(agent_memory, "revisao", r.output)
                             ELSE agent_memory
    /\ llm_raw' = [llm_raw EXCEPT !.reviewer = raw]
    /\ agent_pc' = "reviewed"
    /\ UNCHANGED <<conditions, workflows, RunVars, HostVars, StoreVars>>

\* step "human_approval" of peticao_inicial: should_run evaluates needs_human_gate
GateConditionEvaluated ==
    /\ agent_pc = "reviewed"
    /\ conditions' = [conditions EXCEPT !.needs_human_gate = needs_human_gate(agent_memory)]
    /\ agent_pc' = "decided"
    /\ UNCHANGED <<llm_raw, agent_result, agent_memory, workflows, RunVars, HostVars, StoreVars>>

NextAgents ==
    \/ \E raw \in ClassifierRaws : ClassifyExecutes(raw)
    \/ ConfidenceConditionEvaluated
    \/ \E raw \in ReviewerRaws : ReviewExecutes(raw)
    \/ GateConditionEvaluated

SpecAgents == Init /\ [][NextAgents]_vars

-----------------------------------------------------------------------------
\* the ReviewerAgent returned a review
Reviewed == agent_pc \in {"reviewed", "decided"} /\ agent_result.reviewer.status = COMPLETED

\* what the raw review said in so many words
RawNotApproved ==
    "aprovado" \in DOMAIN llm_raw.reviewer /\ ~llm_raw.reviewer.aprovado
RawLowScore ==
    "score_qualidade" \in DOMAIN llm_raw.reviewer /\ llm_raw.reviewer.score_qualidade < 60
RawHasAltaIssue ==
    LET issues == RawGet(llm_raw.reviewer, "issues", <<>>) IN
      \E k \in 1..Len(issues) : RawGet(issues[k], "severidade", "baixa") = "alta"

\* C33 as stated: a raw review that is not approved and has a low score is parsed to
\* the recommendation 'revisar' or 'rejeitar', whatever the raw review recommended,
\* and a raw review with an issue of severity 'alta' is parsed to aprovado = false
C33_AsStated ==
    Reviewed =>
        /\ RawNotApproved /\ RawLowScore =>
               agent_result.reviewer.output.recomendacao \in {"revisar", "rejeitar"}
        /\ RawHasAltaIssue => agent_result.reviewer.output.aprovado = FALSE

-----------------------------------------------------------------------------
\* C34 as stated: with the ClassifierAgent's output stored under 'classification',
\* the condition of the step after classify is true when the classify step completed
\* with a confidence of at least 0.5, and false only when the confidence was lower
C34_AsStated ==
    agent_pc \in {"analyzed", "reviewed", "decided"} =>
        (conditions.confident <=> agent_result.classifier.confidence >= 50)

-----------------------------------------------------------------------------
\* the review stored under "revisao" lists an issue of severity 'alta'
ReviewFoundAlta ==
    \E k \in 1..Len(agent_memory.revisao.issues) :
        agent_memory.revisao.issues[k].severidade = "alta"

\* C35 as stated: the condition of the human_approval gate is true whenever the case
\* is urgent, or its complexity is high, or the review recommends revision or
\* rejection, or the review's score is below 0.8, or the review found an issue of
\* high severity
C35_AsStated ==
    agent_pc = "decided" =>
        ((\/ agent_memory.classification.urgencia = "urgente"
          \/ agent_memory.classification.complexidade = "complexo"
          \/ /\ "revisao" \in DOMAIN agent_memory
             /\ \/ agent_memory.revisao.recomendacao \in {"revisar", "rejeitar"}
                \/ agent_memory.revisao.score_qualidade < 80
                \/ ReviewFoundAlta)
         => conditions.needs_human_gate)

====
